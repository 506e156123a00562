----------------------------- MODULE ReturnsProofs -----------------------------
(***************************************************************************)
(* Theorems of Returns.                                                    *)
(***************************************************************************)
EXTENDS Returns, SumsProofs, FunctionTheorems, TLAPS

-----------------------------------------------------------------------------
(* Rounding *)

LEMMA SmallerOf ==
  ASSUME NEW a \in Int, NEW b \in Int
  PROVE  Min({a, b}) = IF a <= b THEN a ELSE b
  BY DEF Min

LEMMA LargerOf ==
  ASSUME NEW a \in Int, NEW b \in Int
  PROVE  Max({a, b}) = IF a >= b THEN a ELSE b
  BY DEF Max

LEMMA Quotient ==
  ASSUME NEW n \in Nat, NEW d \in Nat \ {0}
  PROVE  /\ n \div d \in Nat
         /\ d * (n \div d) <= n
         /\ n < d * (n \div d) + d
  OBVIOUS

\* To the nearest cent, half a cent up.
LEMMA RoundIsNear ==
  ASSUME NEW n \in Nat, NEW d \in Nat \ {0}
  PROVE  /\ Round(n, d) \in Nat
         /\ 2 * (d * Round(n, d)) <= 2 * n + d
         /\ 2 * n <= 2 * (d * Round(n, d)) + d
  <1>. DEFINE q == (2 * n + d) \div (2 * d)
  <1>1. 2 * n + d \in Nat /\ 2 * d \in Nat \ {0}
    OBVIOUS
  <1>2. q \in Nat /\ (2 * d) * q <= 2 * n + d /\ 2 * n + d < (2 * d) * q + 2 * d
    BY <1>1, Quotient
  <1>. HIDE DEF q
  <1>3. (2 * d) * q = 2 * (d * q) /\ d * q \in Nat
    BY <1>2
  <1>4. 2 * (d * q) <= 2 * n + d /\ 2 * n <= 2 * (d * q) + d
    BY <1>2, <1>3
  <1>5. Round(n, d) = q
    BY DEF Round, q
  <1>. QED
    BY <1>2, <1>4, <1>5
-----------------------------------------------------------------------------
(* What a request is worth *)

Whole == OrderTotal + OrderCredit

LEMMA OrderFacts ==
  /\ Whole \in Nat /\ OrderTotal \in Nat /\ OrderCredit \in Nat /\ OrderShipping \in Nat
  /\ OrderShipping <= Whole
  /\ IsFiniteSet(Requests) /\ IsFiniteSet(Lines) /\ Lines # {}
  /\ \A line \in Lines : Sold[line] \in Nat \ {0} /\ UnitPrice[line] \in Nat \ {0}
  /\ \A r \in Requests : \A line \in Lines : Items[r][line] \in Nat
  /\ \A r \in Requests : \E line \in Lines : Items[r][line] > 0
  /\ \A r \in Requests : Items[r] = [line \in Lines |-> Items[r][line]]
  /\ Sold = [line \in Lines |-> Sold[line]]
  BY ReturnsAssumption DEF Whole

LEMMA UnitsBought == Total(Sold, Lines) \in Nat \ {0}
  <1>1. PICK line \in Lines : TRUE
    BY OrderFacts
  <1>2. Total(Sold, Lines) \in Nat /\ Sold[line] <= Total(Sold, Lines)
    BY OrderFacts, TotalNat, TotalCovers
  <1>. QED
    BY <1>2, OrderFacts

LEMMA GrossItemsPositive == GrossItems \in Nat \ {0}
  <1>. DEFINE price == [line \in Lines |-> UnitPrice[line] * Sold[line]]
  <1>1. \A line \in Lines : price[line] \in Nat \ {0}
    BY OrderFacts
  <1>2. PICK line \in Lines : TRUE
    BY OrderFacts
  <1>3. GrossItems = Total(price, Lines)
    BY DEF GrossItems
  <1>. HIDE DEF price
  <1>4. Total(price, Lines) \in Nat /\ price[line] <= Total(price, Lines)
    BY <1>1, OrderFacts, TotalNat, TotalCovers
  <1>. QED
    BY <1>1, <1>3, <1>4

LEMMA NetItemsAre == NetItems = Whole - OrderShipping /\ NetItems \in Nat
  <1>. DEFINE net == OrderTotal + OrderCredit - OrderShipping
  <1>1. net \in Nat /\ net = Whole - OrderShipping
    BY OrderFacts DEF Whole
  <1>2. NetItems = Max({0, net})
    BY DEF NetItems
  <1>. HIDE DEF net
  <1>3. Max({0, net}) = IF 0 >= net THEN 0 ELSE net
    BY <1>1, LargerOf
  <1>. QED
    BY <1>1, <1>2, <1>3

Discounted == Min({NetItems, GrossItems})

LEMMA DiscountedBounds ==
  Discounted \in Nat /\ Discounted <= NetItems /\ Discounted <= GrossItems
  BY NetItemsAre, GrossItemsPositive, SmallerOf DEF Discounted

\* A unit is worth its share of what was paid for the pieces, to the nearest cent.
LEMMA UnitRefundValueBounds ==
  ASSUME NEW line \in Lines
  PROVE  /\ UnitRefundValue(line) \in Nat
         /\ 2 * (GrossItems * UnitRefundValue(line))
              <= 2 * (UnitPrice[line] * Discounted) + GrossItems
  <1>1. UnitRefundValue(line) = Round(UnitPrice[line] * Discounted, GrossItems)
    BY GrossItemsPositive DEF UnitRefundValue, Discounted
  <1>2. UnitPrice[line] * Discounted \in Nat
    BY OrderFacts, DiscountedBounds
  <1>. QED
    BY <1>1, <1>2, GrossItemsPositive, RoundIsNear

LEMMA DivisorIs ==
  LET d == Max({OrderTotal + OrderCredit, 1})
  IN  d \in Nat \ {0} /\ OrderCredit <= d /\ (Whole > 0 => d = Whole)
  <1>1. Max({Whole, 1}) = IF Whole >= 1 THEN Whole ELSE 1
    BY OrderFacts, LargerOf
  <1>2. OrderCredit <= Whole
    BY OrderFacts DEF Whole
  <1>. QED
    BY <1>1, <1>2, OrderFacts DEF Whole

LEMMA CreditPartBounds ==
  ASSUME NEW a \in Nat
  PROVE  /\ CreditPart(a) \in Nat
         /\ CreditPart(a) <= OrderCredit
         /\ CreditPart(a) <= a
         /\ Whole > 0 => 2 * (Whole * CreditPart(a)) <= 2 * (a * OrderCredit) + Whole
         /\ Whole > 0 /\ CreditPart(a) < OrderCredit =>
               2 * (a * OrderCredit) <= 2 * (Whole * CreditPart(a)) + Whole
  <1>. DEFINE d == Max({OrderTotal + OrderCredit, 1})
              q == Round(a * OrderCredit, d)
  <1>1. d \in Nat \ {0} /\ OrderCredit <= d /\ (Whole > 0 => d = Whole)
    BY DivisorIs
  <1>2. CreditPart(a) = Min({OrderCredit, q})
    BY DEF CreditPart
  <1>. HIDE DEF d
  <1>3. a * OrderCredit \in Nat
    BY OrderFacts
  <1>4. /\ q \in Nat
        /\ 2 * (d * q) <= 2 * (a * OrderCredit) + d
        /\ 2 * (a * OrderCredit) <= 2 * (d * q) + d
    BY <1>1, <1>3, RoundIsNear
  <1>. HIDE DEF q
  <1>9. Min({OrderCredit, q}) = IF OrderCredit <= q THEN OrderCredit ELSE q
    BY <1>4, OrderFacts, SmallerOf
  <1>5. CreditPart(a) \in Nat /\ CreditPart(a) <= OrderCredit /\ CreditPart(a) <= q
    BY <1>2, <1>4, <1>9, OrderFacts
  <1>6. q <= a
    <2>1. SUFFICES ASSUME q >= a + 1 PROVE FALSE
      BY <1>4
    <2>2. d * q >= d * (a + 1) /\ a * OrderCredit <= a * d
      BY <1>1, <1>4, <2>1, OrderFacts
    <2>3. d * (a + 1) = d * a + d /\ a * d = d * a /\ d * a \in Nat
      BY <1>1
    <2>4. d * q \in Nat
      BY <1>1, <1>4
    <2>. QED
      BY <1>1, <1>3, <1>4, <2>2, <2>3, <2>4
  <1>7. Whole > 0 => 2 * (Whole * CreditPart(a)) <= 2 * (a * OrderCredit) + Whole
    <2>. SUFFICES ASSUME Whole > 0
                  PROVE  2 * (Whole * CreditPart(a)) <= 2 * (a * OrderCredit) + Whole
      OBVIOUS
    <2>1. Whole * CreditPart(a) <= Whole * q /\ Whole * CreditPart(a) \in Nat /\ Whole * q \in Nat
      BY <1>4, <1>5, OrderFacts
    <2>. QED
      BY <1>1, <1>3, <1>4, <2>1, OrderFacts
  <1>8. Whole > 0 /\ CreditPart(a) < OrderCredit =>
          2 * (a * OrderCredit) <= 2 * (Whole * CreditPart(a)) + Whole
    <2>. SUFFICES ASSUME Whole > 0, CreditPart(a) < OrderCredit
                  PROVE  2 * (a * OrderCredit) <= 2 * (Whole * CreditPart(a)) + Whole
      OBVIOUS
    <2>1. CreditPart(a) = q
      BY <1>2, <1>4, <1>9, OrderFacts
    <2>2. Whole * CreditPart(a) = d * q
      BY <1>1, <2>1
    <2>3. d = Whole
      BY <1>1
    <2>. QED
      BY <1>4, <2>2, <2>3
  <1>10. CreditPart(a) <= a
    BY <1>4, <1>5, <1>6
  <1>. QED
    BY <1>5, <1>7, <1>8, <1>10, Zenon

\* A larger amount has no smaller part.
LEMMA CreditPartGrows ==
  ASSUME NEW a \in Nat, NEW b \in Nat, a <= b
  PROVE  CreditPart(a) <= CreditPart(b)
  <1>. DEFINE d == Max({OrderTotal + OrderCredit, 1})
              p == Round(a * OrderCredit, d)
              q == Round(b * OrderCredit, d)
  <1>1. d \in Nat \ {0}
    BY DivisorIs
  <1>2. CreditPart(a) = Min({OrderCredit, p}) /\ CreditPart(b) = Min({OrderCredit, q})
    BY DEF CreditPart
  <1>. HIDE DEF d
  <1>3. a * OrderCredit \in Nat /\ b * OrderCredit \in Nat /\ a * OrderCredit <= b * OrderCredit
    BY OrderFacts
  <1>4. p \in Nat /\ q \in Nat
    BY <1>1, <1>3, RoundIsNear
  <1>5. p <= q
    <2>. DEFINE m == 2 * (a * OrderCredit) + d
                n == 2 * (b * OrderCredit) + d
    <2>1. m \in Nat /\ n \in Nat /\ m <= n /\ 2 * d \in Nat \ {0}
      BY <1>1, <1>3
    <2>2. p = m \div (2 * d) /\ q = n \div (2 * d)
      BY DEF Round
    <2>. HIDE DEF m, n, p, q
    <2>3. (2 * d) * p <= m /\ n < (2 * d) * q + 2 * d
      BY <2>1, <2>2, Quotient
    <2>4. SUFFICES ASSUME p >= q + 1 PROVE FALSE
      BY <1>4
    <2>5. (2 * d) * p >= (2 * d) * (q + 1)
      BY <1>1, <1>4, <2>4
    <2>6. (2 * d) * (q + 1) = (2 * d) * q + 2 * d /\ (2 * d) * q \in Nat /\ (2 * d) * p \in Nat
      BY <1>1, <1>4
    <2>. QED
      BY <2>1, <2>3, <2>5, <2>6
  <1>. HIDE DEF p, q
  <1>6. /\ Min({OrderCredit, p}) = IF OrderCredit <= p THEN OrderCredit ELSE p
        /\ Min({OrderCredit, q}) = IF OrderCredit <= q THEN OrderCredit ELSE q
    BY <1>4, OrderFacts, SmallerOf
  <1>. QED
    BY <1>2, <1>4, <1>5, <1>6, OrderFacts

LEMMA CashPartIs ==
  ASSUME NEW a \in Nat
  PROVE  CashPart(a) = a - CreditPart(a) /\ CashPart(a) \in Nat
  BY CreditPartBounds, LargerOf DEF CashPart

-----------------------------------------------------------------------------
(* What the requests that live are worth together *)

Live == {r \in Requests : request[r].status \notin Dead \cup {"absent"}}

Pieces(r) == [line \in Lines |-> UnitRefundValue(line) * Items[r][line]]
Shipping(r) == IF Kind[r] = "return" /\ Items[r] = Sold THEN OrderShipping ELSE 0
Worth == [r \in Requests |-> CalculatedAmount(r)]

LEMMA LiveFacts ==
  /\ Live \in SUBSET Requests /\ IsFiniteSet(Live)
  /\ \A line : Claimed(line) = Total([r \in Requests |-> Items[r][line]], Live)
  BY OrderFacts, FS_Subset DEF Live, Claimed

LEMMA WorthFacts ==
  ASSUME NEW r \in Requests
  PROVE  /\ \A line \in Lines : Pieces(r)[line] \in Nat
         /\ Total(Pieces(r), Lines) \in Nat
         /\ Shipping(r) \in Nat
         /\ CalculatedAmount(r) = Total(Pieces(r), Lines) + Shipping(r)
         /\ CalculatedAmount(r) \in Nat
         /\ Worth[r] = CalculatedAmount(r)
  <1>1. \A line \in Lines : Pieces(r)[line] \in Nat
    BY UnitRefundValueBounds, OrderFacts DEF Pieces
  <1>2. Total(Pieces(r), Lines) \in Nat
    BY <1>1, OrderFacts, TotalNat
  <1>3. CalculatedAmount(r) = Total(Pieces(r), Lines) + Shipping(r)
    BY DEF CalculatedAmount, Pieces, Shipping
  <1>4. Shipping(r) \in Nat
    BY OrderFacts DEF Shipping
  <1>. QED
    BY <1>1, <1>2, <1>3, <1>4 DEF Worth

LEMMA ClaimedIs ==
  ASSUME NEW line \in Lines
  PROVE  Claimed(line) \in Nat /\ \A r \in Live : Items[r][line] <= Claimed(line)
  <1>. DEFINE f == [r \in Requests |-> Items[r][line]]
  <1>1. \A r \in Live : f[r] \in Nat /\ f[r] = Items[r][line]
    BY OrderFacts, LiveFacts
  <1>2. Claimed(line) = Total(f, Live)
    BY LiveFacts
  <1>. HIDE DEF f
  <1>. QED
    BY <1>1, <1>2, LiveFacts, TotalNat, TotalCovers

\* The shipping is given back once: two requests for everything do not fit.
LEMMA ShippingOnce ==
  ASSUME ClaimsFitTheOrder
  PROVE  Total([r \in Requests |-> Shipping(r)], Live) <= OrderShipping
  <1>. DEFINE f == [r \in Requests |-> Shipping(r)]
  <1>1. \A r \in Live : f[r] = Shipping(r) /\ f[r] \in Nat
    BY WorthFacts, LiveFacts
  <1>. HIDE DEF f
  <1>2. CASE \A r \in Live : f[r] = 0
    BY <1>2, LiveFacts, OrderFacts, TotalZero DEF f
  <1>3. ASSUME NEW r \in Live, f[r] # 0 PROVE Total(f, Live) <= OrderShipping
    <2>1. Items[r] = Sold /\ f[r] = OrderShipping
      BY <1>1, <1>3 DEF Shipping
    <2>2. ASSUME NEW s \in Live \ {r} PROVE f[s] = 0
      <3>1. SUFFICES ASSUME Items[s] = Sold PROVE FALSE
        BY <1>1 DEF Shipping
      <3>2. PICK line \in Lines : TRUE
        BY OrderFacts
      <3>. DEFINE g == [q \in Requests |-> Items[q][line]]
      <3>3. \A q \in Live : g[q] = Items[q][line] /\ g[q] \in Nat
        BY OrderFacts, LiveFacts
      <3>4. Claimed(line) = Total(g, Live)
        BY LiveFacts
      <3>. HIDE DEF g
      <3>5. IsFiniteSet(Live \ {r})
        BY LiveFacts, FS_Subset
      <3>6. Total(g, Live) = g[r] + Total(g, Live \ {r})
        BY <3>3, LiveFacts, TotalRemove
      <3>7. g[s] <= Total(g, Live \ {r}) /\ Total(g, Live \ {r}) \in Nat
        BY <3>3, <3>5, TotalCovers, TotalNat
      <3>8. Claimed(line) <= Sold[line] /\ g[s] = Sold[line] /\ g[r] = Sold[line]
        BY <2>1, <3>1, <3>3 DEF ClaimsFitTheOrder
      <3>. QED
        BY <3>4, <3>6, <3>7, <3>8, OrderFacts
    <2>3. IsFiniteSet(Live \ {r})
      BY LiveFacts, FS_Subset
    <2>4. Total(f, Live \ {r}) = 0
      BY <2>2, <2>3, TotalZero
    <2>5. Total(f, Live) = f[r] + Total(f, Live \ {r})
      BY <1>1, LiveFacts, TotalRemove
    <2>. QED
      BY <2>1, <2>4, <2>5, OrderFacts
  <1>. QED
    BY <1>2, <1>3 DEF f

\* What is claimed of each line, at the value of its unit.
ClaimedValue == [line \in Lines |-> UnitRefundValue(line) * Claimed(line)]

LEMMA PiecesByLine ==
  Total([r \in Requests |-> Total(Pieces(r), Lines)], Live) = Total(ClaimedValue, Lines)
  <1>. DEFINE table == [r \in Requests |-> Pieces(r)]
              rows == [r \in Live |-> Total(table[r], Lines)]
              column(line) == [r \in Live |-> table[r][line]]
              across == [line \in Lines |-> column(line)]
              columns == [line \in Lines |-> Total(across[line], Live)]
              all == [r \in Requests |-> Total(Pieces(r), Lines)]
  <1>1. \A r \in Live : \A line \in Lines : table[r][line] \in Int
    BY WorthFacts, LiveFacts
  <1>2. Total(rows, Live) = Total(columns, Lines)
    <2>1. \A r \in Live : rows[r] = Total(table[r], Lines)
      OBVIOUS
    <2>2. \A line \in Lines : columns[line] = Total(across[line], Live)
      OBVIOUS
    <2>3. \A r \in Live : \A line \in Lines : across[line][r] = table[r][line]
      OBVIOUS
    <2>. HIDE DEF table, rows, across, columns
    <2>4. Tabulated(table, across, rows, columns, Live, Lines)
      BY <1>1, <2>1, <2>2, <2>3 DEF Tabulated
    <2>. QED
      BY <2>4, LiveFacts, OrderFacts, TotalSwap
  <1>3. Total(all, Live) = Total(rows, Live)
    <2>1. \A r \in Live : all[r] = rows[r]
      BY LiveFacts
    <2>. HIDE DEF all, rows
    <2>. QED
      BY <2>1, LiveFacts, TotalEqual
  <1>4. ASSUME NEW line \in Lines PROVE columns[line] = ClaimedValue[line]
    <2>. DEFINE f == [r \in Requests |-> Items[r][line]]
                h == column(line)
                c == UnitRefundValue(line)
    <2>1. \A r \in Live : f[r] \in Int /\ h[r] = c * f[r]
      BY OrderFacts, LiveFacts DEF Pieces
    <2>2. c \in Int
      BY UnitRefundValueBounds
    <2>3. columns[line] = Total(h, Live) /\ Claimed(line) = Total(f, Live)
      BY LiveFacts
    <2>4. ClaimedValue[line] = c * Claimed(line)
      BY DEF ClaimedValue
    <2>. HIDE DEF f, h, c, columns
    <2>5. Total(h, Live) = c * Total(f, Live)
      BY <2>1, <2>2, LiveFacts, TotalTimes
    <2>. QED
      BY <2>3, <2>4, <2>5
  <1>5. Total(columns, Lines) = Total(ClaimedValue, Lines)
    <2>. HIDE DEF columns
    <2>. QED
      BY <1>4, OrderFacts, TotalEqual
  <1>. HIDE DEF rows, columns
  <1>. QED
    BY <1>2, <1>3, <1>5

\* Rounding adds half a cent at most to each unit.
LEMMA ClaimedValueBounds ==
  ASSUME ClaimsFitTheOrder
  PROVE  /\ Total(ClaimedValue, Lines) \in Nat
         /\ 2 * Total(ClaimedValue, Lines) <= 2 * Discounted + Total(Sold, Lines)
  <1>. DEFINE g == GrossItems
              m == Discounted
              price == [line \in Lines |-> UnitPrice[line] * Sold[line]]
              low == [line \in Lines |-> (2 * g) * ClaimedValue[line]]
              prices == [line \in Lines |-> (2 * m) * price[line]]
              units == [line \in Lines |-> g * Sold[line]]
              high == [line \in Lines |-> prices[line] + units[line]]
  <1>1. g \in Nat \ {0} /\ m \in Nat
    BY GrossItemsPositive, DiscountedBounds
  <1>2. g = Total(price, Lines)
    BY DEF GrossItems
  <1>. HIDE DEF g, m
  <1>3. \A line \in Lines : ClaimedValue[line] \in Nat
    BY UnitRefundValueBounds, ClaimedIs DEF ClaimedValue
  <1>4. \A line \in Lines : price[line] \in Nat /\ Sold[line] \in Nat
    BY OrderFacts
  <1>5. ASSUME NEW line \in Lines
        PROVE  low[line] <= high[line]
    <2>. DEFINE u == UnitRefundValue(line)
                c == Claimed(line)
                p == UnitPrice[line]
                s == Sold[line]
    <2>1. u \in Nat /\ c \in Nat /\ p \in Nat /\ s \in Nat /\ c <= s
      BY UnitRefundValueBounds, ClaimedIs, OrderFacts DEF ClaimsFitTheOrder
    <2>2. 2 * (g * u) <= 2 * (p * m) + g
      BY UnitRefundValueBounds DEF g, m
    <2>3. low[line] = (2 * g) * (u * c) /\ high[line] = (2 * m) * (p * s) + g * s
      BY DEF ClaimedValue
    <2>. HIDE DEF u, c, p, s
    <2>4. (2 * g) * (u * c) = (2 * (g * u)) * c
      BY <1>1, <2>1
    <2>5. (2 * m) * (p * s) + g * s = (2 * (p * m) + g) * s
      BY <1>1, <2>1
    <2>6. 2 * (g * u) \in Nat /\ 2 * (p * m) + g \in Nat
      BY <1>1, <2>1
    <2>. DEFINE x == 2 * (g * u)
                y == 2 * (p * m) + g
    <2>. HIDE DEF x, y
    <2>7. x * c <= y * c /\ y * c <= y * s
      BY <2>1, <2>2, <2>6 DEF x, y
    <2>8. x * c \in Nat /\ y * c \in Nat /\ y * s \in Nat
      BY <2>1, <2>6 DEF x, y
    <2>. QED
      BY <2>3, <2>4, <2>5, <2>7, <2>8 DEF x, y
  <1>6. \A line \in Lines : /\ low[line] \in Int /\ high[line] \in Int
                            /\ prices[line] \in Int /\ units[line] \in Int
                            /\ low[line] = (2 * g) * ClaimedValue[line]
                            /\ prices[line] = (2 * m) * price[line]
                            /\ units[line] = g * Sold[line]
                            /\ high[line] = prices[line] + units[line]
    BY <1>1, <1>3, <1>4
  <1>7. 2 * g \in Int /\ 2 * m \in Int /\ g \in Int
    BY <1>1
  <1>. HIDE DEF price, low, high, prices, units
  <1>8. Total(low, Lines) = (2 * g) * Total(ClaimedValue, Lines)
    BY <1>3, <1>6, <1>7, OrderFacts, TotalTimes
  <1>9. Total(prices, Lines) = (2 * m) * Total(price, Lines)
    BY <1>4, <1>6, <1>7, OrderFacts, TotalTimes
  <1>10. Total(units, Lines) = g * Total(Sold, Lines)
    BY <1>4, <1>6, <1>7, OrderFacts, TotalTimes
  <1>11. Total(high, Lines) = Total(prices, Lines) + Total(units, Lines)
    BY <1>6, OrderFacts, TotalPlus
  <1>12. Total(low, Lines) <= Total(high, Lines)
    BY <1>5, <1>6, OrderFacts, TotalAtMost
  <1>. DEFINE w == Total(ClaimedValue, Lines)
              all == Total(Sold, Lines)
  <1>13. w \in Nat /\ all \in Nat
    BY <1>3, <1>4, OrderFacts, TotalNat
  <1>14. (2 * g) * w <= (2 * m) * g + g * all
    BY <1>2, <1>8, <1>9, <1>10, <1>11, <1>12
  <1>. HIDE DEF w, all
  <1>15. g * (2 * w) <= g * (2 * m + all)
    <2>1. (2 * g) * w = g * (2 * w) /\ (2 * m) * g + g * all = g * (2 * m + all)
      BY <1>1, <1>13
    <2>. QED
      BY <1>14, <2>1
  <1>16. 2 * w <= 2 * m + all
    <2>1. SUFFICES ASSUME 2 * w >= 2 * m + all + 1 PROVE FALSE
      BY <1>1, <1>13
    <2>2. g * (2 * w) >= g * (2 * m + all + 1)
      BY <1>1, <1>13, <2>1
    <2>3. g * (2 * m + all + 1) = g * (2 * m + all) + g
      BY <1>1, <1>13
    <2>4. g * (2 * w) \in Nat /\ g * (2 * m + all) \in Nat
      BY <1>1, <1>13
    <2>. QED
      BY <1>1, <1>15, <2>2, <2>3, <2>4
  <1>. QED
    BY <1>13, <1>16 DEF w, all, m

\* The requests that live are worth no more than the order together, rounding aside.
LEMMA LiveWorth ==
  ASSUME ClaimsFitTheOrder
  PROVE  /\ Total(Worth, Live) \in Nat
         /\ 2 * Total(Worth, Live) <= 2 * Whole + Total(Sold, Lines)
  <1>. DEFINE pieces == [r \in Requests |-> Total(Pieces(r), Lines)]
              shipping == [r \in Requests |-> Shipping(r)]
  <1>1. \A r \in Live : /\ pieces[r] \in Int /\ shipping[r] \in Int /\ Worth[r] \in Nat
                        /\ Worth[r] = pieces[r] + shipping[r]
    BY WorthFacts, LiveFacts
  <1>2. Total(shipping, Live) <= OrderShipping
    BY ShippingOnce
  <1>3. Total(pieces, Live) = Total(ClaimedValue, Lines)
    BY PiecesByLine
  <1>. HIDE DEF pieces, shipping
  <1>4. Total(Worth, Live) = Total(pieces, Live) + Total(shipping, Live)
    BY <1>1, LiveFacts, TotalPlus
  <1>5. Total(Worth, Live) \in Nat /\ Total(shipping, Live) \in Int
    BY <1>1, LiveFacts, TotalNat, TotalInt
  <1>. QED
    BY <1>2, <1>3, <1>4, <1>5, ClaimedValueBounds, DiscountedBounds, NetItemsAre, UnitsBought,
       OrderFacts

\* Each of them claims a unit at least.
Ones == [r \in Requests |-> 1]

LEMMA LiveCount ==
  ASSUME ClaimsFitTheOrder
  PROVE  Total(Ones, Live) \in Nat /\ Total(Ones, Live) <= Total(Sold, Lines)
  <1>. DEFINE column(line) == [r \in Requests |-> Items[r][line]]
              across == [line \in Lines |-> column(line)]
              row == [r \in Requests |-> Total(Items[r], Lines)]
              claimed == [line \in Lines |-> Claimed(line)]
  <1>1. Tabulated(Items, across, row, claimed, Live, Lines)
    <2>1. \A line \in Lines : claimed[line] = Total(across[line], Live)
      BY LiveFacts
    <2>2. \A r \in Live : row[r] = Total(Items[r], Lines)
      BY LiveFacts
    <2>3. \A r \in Live : \A line \in Lines :
            Items[r][line] \in Int /\ across[line][r] = Items[r][line]
      BY LiveFacts, OrderFacts
    <2>. HIDE DEF row, across, claimed
    <2>. QED
      BY <2>1, <2>2, <2>3 DEF Tabulated
  <1>2. \A r \in Live : row[r] \in Nat /\ row[r] >= 1
    <2>. SUFFICES ASSUME NEW r \in Live
                  PROVE  Total(Items[r], Lines) \in Nat /\ Total(Items[r], Lines) >= 1
      BY LiveFacts
    <2>. DEFINE f == Items[r]
    <2>1. \A line \in Lines : f[line] \in Nat
      BY LiveFacts, OrderFacts
    <2>2. PICK line \in Lines : f[line] > 0
      BY LiveFacts, OrderFacts
    <2>. HIDE DEF f
    <2>3. Total(f, Lines) \in Nat /\ f[line] <= Total(f, Lines)
      BY <2>1, OrderFacts, TotalNat, TotalCovers
    <2>. QED
      BY <2>1, <2>2, <2>3 DEF f
  <1>3. \A line \in Lines : /\ claimed[line] \in Int /\ Sold[line] \in Int
                            /\ claimed[line] <= Sold[line]
    BY ClaimedIs, OrderFacts DEF ClaimsFitTheOrder
  <1>. HIDE DEF row, across, claimed
  <1>4. Total(row, Live) = Total(claimed, Lines)
    BY <1>1, LiveFacts, OrderFacts, TotalSwap
  <1>5. Total(claimed, Lines) <= Total(Sold, Lines)
    BY <1>3, OrderFacts, TotalAtMost
  <1>6. \A r \in Live : Ones[r] = 1 /\ Ones[r] \in Int /\ Ones[r] \in Nat
    BY LiveFacts DEF Ones
  <1>7. Total(Ones, Live) <= Total(row, Live)
    BY <1>2, <1>6, LiveFacts, TotalAtMost
  <1>8. Total(Ones, Live) \in Nat /\ Total(row, Live) \in Int
    BY <1>2, <1>6, LiveFacts, TotalNat, TotalInt
  <1>. QED
    BY <1>4, <1>5, <1>7, <1>8, UnitsBought

\* What refunds of the whole of each request would release of the credit.
Credits == [r \in Requests |-> CreditPart(CalculatedAmount(r))]

LEMMA CreditsFacts ==
  ASSUME NEW r \in Requests
  PROVE  /\ Credits[r] = CreditPart(CalculatedAmount(r))
         /\ Credits[r] \in Nat /\ Credits[r] <= Worth[r] /\ Credits[r] <= OrderCredit
         /\ Whole > 0 => 2 * (Whole * Credits[r]) <= 2 * (Worth[r] * OrderCredit) + Whole
  <1>1. Credits[r] = CreditPart(CalculatedAmount(r)) /\ Worth[r] = CalculatedAmount(r)
    BY DEF Credits, Worth
  <1>2. CalculatedAmount(r) \in Nat
    BY WorthFacts
  <1>. QED
    BY <1>1, <1>2, CreditPartBounds

\* Together they exceed the credit by less than a cent for each unit.
LEMMA CreditsOfLive ==
  ASSUME ClaimsFitTheOrder
  PROVE  /\ Total(Credits, Live) \in Nat
         /\ Total(Credits, Live) <= OrderCredit + Total(Sold, Lines)
  <1>1. Total(Credits, Live) \in Nat
    BY CreditsFacts, LiveFacts, TotalNat
  <1>2. CASE Whole = 0
    <2>1. \A r \in Live : Credits[r] = 0
      BY <1>2, CreditsFacts, LiveFacts, OrderFacts DEF Whole
    <2>2. Total(Credits, Live) = 0
      BY <2>1, LiveFacts, TotalZero
    <2>. QED
      BY <1>1, <2>2, OrderFacts, UnitsBought
  <1>3. CASE Whole > 0
    <2>. DEFINE w == Whole
                low == [r \in Requests |-> (2 * w) * Credits[r]]
                worth == [r \in Requests |-> (2 * OrderCredit) * Worth[r]]
                ones == [r \in Requests |-> w * Ones[r]]
                high == [r \in Requests |-> worth[r] + ones[r]]
    <2>1. w \in Nat \ {0} /\ OrderCredit <= w /\ OrderCredit \in Nat
      BY <1>3, OrderFacts DEF Whole
    <2>. HIDE DEF w
    <2>2. \A r \in Live : /\ Credits[r] \in Nat /\ Worth[r] \in Nat /\ Ones[r] = 1 /\ Ones[r] \in Int
      BY CreditsFacts, WorthFacts, LiveFacts DEF Ones
    <2>3. \A r \in Live : /\ low[r] \in Int /\ high[r] \in Int
                          /\ worth[r] \in Int /\ ones[r] \in Int
                          /\ low[r] = (2 * w) * Credits[r]
                          /\ worth[r] = (2 * OrderCredit) * Worth[r]
                          /\ ones[r] = w * Ones[r]
                          /\ high[r] = worth[r] + ones[r]
      BY <2>1, <2>2, LiveFacts
    <2>4. ASSUME NEW r \in Live PROVE low[r] <= high[r]
      <3>. DEFINE c == Credits[r]
                  a == Worth[r]
      <3>1. c \in Nat /\ a \in Nat
        BY <2>2
      <3>2. 2 * (w * c) <= 2 * (a * OrderCredit) + w
        BY <1>3, CreditsFacts, LiveFacts DEF w
      <3>3. low[r] = (2 * w) * c /\ high[r] = (2 * OrderCredit) * a + w * Ones[r]
        BY LiveFacts
      <3>. HIDE DEF c, a
      <3>4. (2 * w) * c = 2 * (w * c) /\ (2 * OrderCredit) * a = 2 * (a * OrderCredit)
        BY <2>1, <3>1
      <3>5. w * Ones[r] = w
        BY <2>1, <2>2
      <3>. QED
        BY <3>2, <3>3, <3>4, <3>5
    <2>5. 2 * w \in Int /\ 2 * OrderCredit \in Int /\ w \in Int
      BY <2>1
    <2>. HIDE DEF low, worth, ones, high
    <2>6. /\ Total(low, Live) = (2 * w) * Total(Credits, Live)
          /\ Total(worth, Live) = (2 * OrderCredit) * Total(Worth, Live)
          /\ Total(ones, Live) = w * Total(Ones, Live)
      BY <2>2, <2>3, <2>5, LiveFacts, TotalTimes
    <2>7. Total(high, Live) = Total(worth, Live) + Total(ones, Live)
      BY <2>3, LiveFacts, TotalPlus
    <2>8. Total(low, Live) <= Total(high, Live)
      BY <2>3, <2>4, LiveFacts, TotalAtMost
    <2>. DEFINE c == Total(Credits, Live)
                a == Total(Worth, Live)
                n == Total(Ones, Live)
                u == Total(Sold, Lines)
                k == OrderCredit
    <2>9. /\ c \in Nat /\ a \in Nat /\ n \in Nat /\ u \in Nat /\ k \in Nat
          /\ n <= u /\ 2 * a <= 2 * w + u /\ k <= w
      BY <1>1, <2>1, LiveWorth, LiveCount, UnitsBought DEF w
    <2>10. (2 * w) * c <= (2 * k) * a + w * n
      BY <2>6, <2>7, <2>8
    <2>. HIDE DEF c, a, n, u, k
    <2>11. (2 * k) * a <= k * (2 * w + u) /\ w * n <= w * u /\ k * u <= w * u
      <3>1. (2 * k) * a = k * (2 * a)
        BY <2>9
      <3>. QED
        BY <2>1, <2>9, <3>1
    <2>12. (2 * w) * c = w * (2 * c) /\ k * (2 * w + u) = w * (2 * k) + k * u
      BY <2>1, <2>9
    <2>13. w * (2 * c) <= w * (2 * k + 2 * u)
      <3>1. w * (2 * k + 2 * u) = w * (2 * k) + w * u + w * u
        BY <2>1, <2>9
      <3>2. /\ w * (2 * k) \in Nat /\ w * u \in Nat /\ k * u \in Nat /\ w * n \in Nat
            /\ w * (2 * c) \in Nat /\ (2 * k) * a \in Nat
        BY <2>1, <2>9
      <3>. QED
        BY <2>10, <2>11, <2>12, <3>1, <3>2
    <2>14. 2 * c <= 2 * k + 2 * u
      <3>1. SUFFICES ASSUME 2 * c >= 2 * k + 2 * u + 1 PROVE FALSE
        BY <2>9
      <3>2. w * (2 * c) >= w * (2 * k + 2 * u + 1)
        BY <2>1, <2>9, <3>1
      <3>3. w * (2 * k + 2 * u + 1) = w * (2 * k + 2 * u) + w /\ w * (2 * k + 2 * u) \in Nat
        BY <2>1, <2>9
      <3>4. w * (2 * c) \in Nat
        BY <2>1, <2>9
      <3>. QED
        BY <2>1, <2>13, <3>2, <3>3, <3>4
    <2>15. c <= k + u
      BY <2>9, <2>14
    <2>. QED
      BY <1>1, <2>15 DEF c, k, u
  <1>. QED
    BY <1>2, <1>3, OrderFacts

\* A refund of the amount a, for a request that lives and was not refunded, when the
\* requests of R were: what the limits of the payment and of the credit take from it.
LEMMA LossIsSmall ==
  ASSUME ClaimsFitTheOrder, NEW r \in Live, NEW R \in SUBSET (Live \ {r}),
         NEW a \in Nat, a <= CalculatedAmount(r),
         NEW b \in 0 .. OrderCredit, b <= Total(Credits, R)
  PROVE  LET x == Min({OrderTotal, CashPart(a)})
             y == Min({CreditPart(a), OrderCredit - b})
         IN  /\ x \in Nat /\ x <= OrderTotal /\ x <= CashPart(a)
             /\ y \in Nat /\ y <= OrderCredit - b /\ y <= CreditPart(a)
             /\ x + y <= a
             /\ a - (x + y) <= Total(Sold, Lines)
  <1>. DEFINE inCash == CashPart(a)
              credit == CreditPart(a)
              left == OrderCredit - b
              x == Min({OrderTotal, inCash})
              y == Min({credit, left})
              u == Total(Sold, Lines)
  <1>1. /\ credit \in Nat /\ inCash \in Nat /\ inCash = a - credit /\ credit <= OrderCredit
        /\ left \in Nat /\ OrderCredit \in Nat /\ OrderTotal \in Nat
        /\ u \in Nat /\ u >= 1 /\ Whole = OrderTotal + OrderCredit
    BY CreditPartBounds, CashPartIs, OrderFacts, UnitsBought DEF Whole
  <1>. HIDE DEF inCash, left
  <1>2. x = IF OrderTotal <= inCash THEN OrderTotal ELSE inCash
    BY <1>1, SmallerOf
  <1>. DEFINE part == credit
  <1>3. y = IF credit <= left THEN credit ELSE left
    <2>. HIDE DEF part
    <2>1. Min({part, left}) = IF part <= left THEN part ELSE left
      BY <1>1, SmallerOf DEF part
    <2>. QED
      BY <2>1 DEF part
  <1>. HIDE DEF x, y, u
  <1>4. r \in Requests /\ CalculatedAmount(r) \in Nat
    BY LiveFacts, WorthFacts
  <1>5. R \cup {r} \in SUBSET Live /\ IsFiniteSet(R) /\ IsFiniteSet(R \cup {r}) /\ r \notin R
    BY LiveFacts, FS_Subset
  <1>6. credit <= Credits[r] /\ a <= Worth[r] /\ Credits[r] \in Nat /\ Worth[r] \in Nat
    BY <1>4, CreditPartGrows, CreditsFacts, WorthFacts
  <1>7. Credits[r] + Total(Credits, R) <= OrderCredit + u
    <2>1. Total(Credits, R \cup {r}) = Credits[r] + Total(Credits, R)
      BY <1>5, CreditsFacts, LiveFacts, TotalInsert
    <2>2. Total(Credits, R \cup {r}) <= Total(Credits, Live)
      BY <1>5, CreditsFacts, LiveFacts, TotalOfPart
    <2>3. Total(Credits, R \cup {r}) \in Nat
      BY <1>5, CreditsFacts, LiveFacts, TotalNat
    <2>. QED
      BY <1>1, <2>1, <2>2, <2>3, CreditsOfLive DEF u
  <1>8. 2 * (Worth[r] + Total(Credits, R)) <= 2 * Whole + u
    <2>1. Total(Worth, R \cup {r}) = Worth[r] + Total(Worth, R)
      BY <1>5, WorthFacts, LiveFacts, TotalInsert
    <2>2. Total(Worth, R \cup {r}) <= Total(Worth, Live)
      BY <1>5, WorthFacts, LiveFacts, TotalOfPart
    <2>3. Total(Credits, R) <= Total(Worth, R)
      BY <1>5, CreditsFacts, WorthFacts, LiveFacts, TotalAtMost
    <2>4. Total(Worth, R \cup {r}) \in Nat /\ Total(Credits, R) \in Nat /\ Total(Worth, R) \in Nat
      BY <1>5, CreditsFacts, WorthFacts, LiveFacts, TotalNat
    <2>. QED
      BY <1>1, <1>6, <2>1, <2>2, <2>3, <2>4, LiveWorth, OrderFacts DEF u
  <1>9. Total(Credits, R) \in Nat
    BY <1>5, CreditsFacts, LiveFacts, TotalNat
  <1>10. /\ x \in Nat /\ x <= OrderTotal /\ x <= inCash
         /\ y \in Nat /\ y <= left /\ y <= credit /\ x + y <= a
    BY <1>1, <1>2, <1>3
  <1>11. b \in Nat /\ left = OrderCredit - b
    BY <1>1 DEF left
  <1>12. a - (x + y) <= u
    <2>1. CASE OrderTotal >= inCash
      BY <1>1, <1>2, <1>3, <1>6, <1>7, <1>9, <1>11, <2>1
    <2>2. CASE OrderTotal < inCash /\ left < credit
      BY <1>1, <1>2, <1>3, <1>6, <1>8, <1>9, <1>11, <2>2
    <2>3. CASE OrderTotal < inCash /\ credit <= left
      <3>1. x + y = OrderTotal + credit
        BY <1>1, <1>2, <1>3, <2>3
      <3>2. 2 * a <= 2 * Whole + u
        BY <1>1, <1>6, <1>8, <1>9, OrderFacts
      <3>3. CASE credit = OrderCredit
        BY <1>1, <3>1, <3>2, <3>3
      <3>4. CASE credit < OrderCredit
        <4>. DEFINE w == Whole
                    t == OrderTotal
                    k == OrderCredit
                    c == credit
        <4>1. w \in Nat \ {0} /\ t \in Nat /\ k \in Nat /\ c \in Nat /\ w = t + k /\ t <= w
          BY <1>1, <3>4, OrderFacts
        <4>2. 2 * (a * k) <= 2 * (w * c) + w
          BY <3>4, <4>1, CreditPartBounds
        <4>3. 2 * a <= 2 * w + u
          BY <3>2
        <4>. HIDE DEF w, t, k, c
        <4>4. w * (2 * (a - c - t)) = 2 * (w * a) - 2 * (w * c) - 2 * (w * t)
          BY <1>1, <4>1
        <4>5. w * a = t * a + a * k
          BY <1>1, <4>1
        <4>6. t * (2 * a) <= t * (2 * w + u)
          BY <1>1, <4>1, <4>3
        <4>7. t * (2 * a) = 2 * (t * a) /\ t * (2 * w + u) = 2 * (w * t) + t * u
          BY <1>1, <4>1
        <4>8. t * u <= w * u /\ w * (u + 1) = w * u + w
          BY <1>1, <4>1
        <4>9. /\ t * a \in Nat /\ a * k \in Nat /\ w * a \in Nat /\ w * c \in Nat
              /\ w * t \in Nat /\ t * u \in Nat /\ w * u \in Nat
          BY <1>1, <4>1
        <4>10. w * (2 * (a - c - t)) <= w * (u + 1)
          BY <4>1, <4>2, <4>4, <4>5, <4>6, <4>7, <4>8, <4>9
        <4>11. 2 * (a - c - t) <= u + 1
          <5>1. SUFFICES ASSUME 2 * (a - c - t) >= u + 2 PROVE FALSE
            BY <1>1, <4>1
          <5>2. w * (2 * (a - c - t)) >= w * (u + 2)
            BY <1>1, <4>1, <5>1
          <5>3. w * (u + 2) = w * (u + 1) + w /\ w * (u + 1) \in Nat
            BY <1>1, <4>1
          <5>4. w * (2 * (a - c - t)) \in Int
            BY <1>1, <4>1
          <5>. QED
            BY <4>1, <4>10, <5>2, <5>3, <5>4
        <4>12. a - (x + y) = a - c - t
          BY <1>1, <3>1, <4>1 DEF c, t
        <4>. QED
          BY <1>1, <4>1, <4>11, <4>12
      <3>. QED
        BY <1>1, <3>3, <3>4
    <2>. QED
      BY <1>1, <2>1, <2>2, <2>3
  <1>. QED
    BY <1>10, <1>12 DEF x, y, u, inCash, left

-----------------------------------------------------------------------------
(* Types *)

Row == [status : Statuses, condition : [Lines -> Conditions], label : Labels \cup {None},
        reverse : ParcelStates \cup {"purchased"}, posting : BOOLEAN, amount : Nat]
Job == [pc : Pcs, request : Requests \cup {None}, row : Row,
        resolution : {"none", "credit", "refund"}, amount : Nat]

Types ==
    /\ request \in [Requests -> Row]
    /\ lockedBy \subseteq Requests
    /\ parcel \in [Labels -> ParcelStates]
    /\ cash \in 0 .. OrderTotal
    /\ creditBack \in 0 .. OrderCredit
    /\ refunded \in [Requests -> Nat]
    /\ voucher \in [Requests -> Nat]
    /\ restocked \in [Requests -> SUBSET Lines]
    /\ job \in [Managers -> Job]

LEMMA StatusSets ==
  /\ Statuses = {"absent", "requested", "approved", "awaiting_posting", "returning", "received",
                 "inspecting", "rejected", "canceled", "completed"}
  /\ Open = Statuses \ {"absent", "rejected", "canceled", "completed"}
  /\ Dead = {"rejected", "canceled"} /\ Closed = {"rejected", "canceled", "completed"}
  BY DEF Statuses, Open, Closed, Dead

LEMMA BlankTypes == NoRequest \in Row /\ Idle \in Job
  BY StatusSets DEF NoRequest, Idle, Row, Job, Conditions, ParcelStates, Pcs

LEMMA StartsTyped == Init => Types
  <1>. SUFFICES ASSUME Init PROVE Types
    OBVIOUS
  <1>. QED
    BY BlankTypes, OrderFacts DEF Init, Types, ParcelStates

LEMMA AmountsAre ==
  ASSUME NEW r \in Requests, NEW a \in Amounts(r)
  PROVE  a \in Nat /\ a > 0 /\ a <= CalculatedAmount(r)
  <1>1. CalculatedAmount(r) \in Nat
    BY WorthFacts
  <1>. QED
    BY <1>1 DEF Amounts

\* What a webhook makes of the row of its label.
LEMMA ApplyReverseIs ==
  ASSUME NEW row \in Row, NEW e \in ParcelStates
  PROVE  LET new == ApplyReverse(row, e)
         IN  /\ new \in Row
             /\ new.condition = row.condition /\ new.label = row.label /\ new.amount = row.amount
             /\ new.status # row.status => new.status \in {"returning", "received", "awaiting_posting"}
  BY StatusSets DEF ApplyReverse, Row, ParcelStates

LEMMA CashMoves ==
  ASSUME Types, NEW m \in Managers, RefundOrderAmount(m)
  PROVE  cash' \in 0 .. OrderTotal /\ refunded' \in [Requests -> Nat]
  <1>. DEFINE asked == CashPart(job[m].amount)
              value == Min({OrderTotal, asked})
  <1>1. asked \in Nat
    BY CashPartIs DEF Types, Job
  <1>. HIDE DEF asked
  <1>2. value = IF OrderTotal <= asked THEN OrderTotal ELSE asked
    BY <1>1, OrderFacts, SmallerOf
  <1>3. value \in Nat
    BY <1>1, <1>2, OrderFacts
  <1>4. \/ cash' = cash /\ refunded' = refunded
        \/ /\ value <= OrderTotal - cash /\ cash' = cash + value
           /\ refunded' = [refunded EXCEPT ![job[m].request] = @ + value]
    BY DEF RefundOrderAmount, asked
  <1>. HIDE DEF value
  <1>. QED
    BY <1>3, <1>4, OrderFacts DEF Types

LEMMA CreditMoves ==
  ASSUME Types, NEW m \in Managers, ReleaseCredit(m)
  PROVE  /\ creditBack' \in 0 .. OrderCredit /\ refunded' \in [Requests -> Nat]
  <1>. DEFINE part == CreditPart(job[m].amount)
              left == OrderCredit - creditBack
              value == Min({part, left})
  <1>1. part \in Nat /\ left \in Nat
    BY CreditPartBounds, OrderFacts DEF Types, Job
  <1>. HIDE DEF part
  <1>2. left = OrderCredit - creditBack
    OBVIOUS
  <1>3. creditBack' = creditBack + value /\ refunded' = [refunded EXCEPT ![job[m].request] = @ + value]
    BY DEF ReleaseCredit, part
  <1>. HIDE DEF left
  <1>4. value = IF part <= left THEN part ELSE left
    BY <1>1, SmallerOf
  <1>. HIDE DEF value
  <1>5. value \in Nat /\ value <= left
    BY <1>1, <1>4
  <1>6. creditBack \in Nat /\ creditBack + value <= OrderCredit
    BY <1>2, <1>5, OrderFacts DEF Types
  <1>7. creditBack' \in 0 .. OrderCredit
    BY <1>3, <1>5, <1>6, OrderFacts
  <1>8. refunded' \in [Requests -> Nat]
    <2>1. \A q \in Requests : refunded[q] + value \in Nat
      BY <1>5 DEF Types
    <2>2. refunded \in [Requests -> Nat]
      BY DEF Types
    <2>. QED
      BY <1>3, <2>1, <2>2
  <1>. QED
    BY <1>7, <1>8

LEMMA JobEnds ==
  ASSUME Types, NEW m \in Managers
  PROVE  /\ \A pc \in Pcs : Goto(m, pc) => job' \in [Managers -> Job]
         /\ End(m) => job' \in [Managers -> Job]
         /\ \A row \in Row, pc \in Pcs : SaveRow(m, row, pc) =>
                job' \in [Managers -> Job] /\ request' \in [Requests -> Row]
         /\ SaveFailed(m) => job' \in [Managers -> Job] /\ request' \in [Requests -> Row]
  <1>1. job[m] \in Job /\ job[m].row \in Row /\ Idle \in Job
    BY BlankTypes DEF Types, Job
  <1>2. \A pc \in Pcs : [job[m] EXCEPT !.pc = pc] \in Job
    BY <1>1 DEF Job
  <1>3. \A pc \in Pcs, row \in Row : [job[m] EXCEPT !.row = row, !.pc = pc] \in Job
    BY <1>1 DEF Job
  <1>4. ASSUME NEW row \in Row, NEW pc \in Pcs, SaveRow(m, row, pc)
        PROVE  job' = [job EXCEPT ![m] = [job[m] EXCEPT !.row = row, !.pc = pc]]
    BY <1>1, <1>4 DEF SaveRow, Types
  <1>. HIDE DEF Types
  <1>5. job \in [Managers -> Job] /\ request \in [Requests -> Row]
    BY DEF Types
  <1>6. ASSUME NEW pc \in Pcs, Goto(m, pc) PROVE job' \in [Managers -> Job]
    BY <1>2, <1>5, <1>6 DEF Goto
  <1>7. End(m) => job' \in [Managers -> Job]
    BY <1>1, <1>5 DEF End
  <1>8. ASSUME NEW row \in Row, NEW pc \in Pcs, SaveRow(m, row, pc)
        PROVE  job' \in [Managers -> Job] /\ request' \in [Requests -> Row]
    BY <1>3, <1>4, <1>5, <1>8 DEF SaveRow
  <1>9. SaveFailed(m) => job' \in [Managers -> Job] /\ request' \in [Requests -> Row]
    BY <1>1, <1>5, <1>7 DEF SaveFailed
  <1>. QED
    BY <1>6, <1>7, <1>8, <1>9

LEMMA TypesStep == Types /\ [Next]_vars => Types'
  <1>. SUFFICES ASSUME Types, [Next]_vars PROVE Types'
    OBVIOUS
  <1>. USE DEF moneyVars, carrierVars
  <1>1. /\ request \in [Requests -> Row] /\ job \in [Managers -> Job]
        /\ parcel \in [Labels -> ParcelStates]
    BY DEF Types
  <1>2. \A r \in Requests : request[r] \in Row
    BY <1>1
  <1>3. \A m \in Managers : job[m].row \in Row /\ job[m] \in Job
    BY <1>1 DEF Job
  <1>4. \A p \in ParcelStates : p \in ParcelStates \cup {"purchased"}
    OBVIOUS
  <1>5. ASSUME NEW r \in Requests, ReadClaims(r) \/ Create(r) \/ Cancel(r)
        PROVE  Types'
    <2>1. \A s \in Statuses : [request[r] EXCEPT !.status = s] \in Row
      BY <1>2 DEF Row
    <2>. QED
      BY <1>5, <2>1, StatusSets DEF ReadClaims, Create, Cancel, Types
  <1>6. ASSUME NEW r \in Requests, Update(r) PROVE Types'
    <2>1. /\ \A s \in Statuses : [request[r] EXCEPT !.status = s] \in Row
          /\ [request[r] EXCEPT !.posting = TRUE] \in Row
          /\ \A line \in Lines, c \in Conditions : [request[r] EXCEPT !.condition[line] = c] \in Row
      BY <1>2 DEF Row
    <2>2. ByHand \subseteq Statuses /\ Wanted(r) \subseteq Lines
      BY StatusSets, ReturnsAssumption DEF Wanted
    <2>3. request' \in [Requests -> Row]
      <3>1. \/ \E line \in Lines, c \in Conditions :
                 request' = [request EXCEPT ![r].condition[line] = c]
            \/ request' = [request EXCEPT ![r].posting = TRUE]
            \/ \E s \in Statuses : request' = [request EXCEPT ![r].status = s]
        BY <1>6, <2>2 DEF Update
      <3>2. ASSUME NEW line \in Lines, NEW c \in Conditions,
                   request' = [request EXCEPT ![r].condition[line] = c]
            PROVE  request' \in [Requests -> Row]
        <4>1. request' = [request EXCEPT ![r] = [request[r] EXCEPT !.condition[line] = c]]
          BY <1>1, <3>2
        <4>2. [request[r] EXCEPT !.condition[line] = c] \in Row
          BY <2>1
        <4>. QED
          BY <1>1, <4>1, <4>2
      <3>3. ASSUME request' = [request EXCEPT ![r].posting = TRUE]
            PROVE  request' \in [Requests -> Row]
        BY <1>1, <2>1, <3>3
      <3>4. ASSUME NEW s \in Statuses, request' = [request EXCEPT ![r].status = s]
            PROVE  request' \in [Requests -> Row]
        BY <1>1, <2>1, <3>4
      <3>. QED
        BY <3>1, <3>2, <3>3, <3>4
    <2>. QED
      BY <1>6, <2>3 DEF Update, Types
  <1>7. ASSUME NEW m \in Managers, NEW r \in Requests, IssueReverseShipment(m, r)
        PROVE  Types'
    <2>1. \A pc \in Pcs : [Idle EXCEPT !.pc = pc, !.request = r, !.row = request[r]] \in Job
      BY <1>2, BlankTypes DEF Job
    <2>2. job' \in [Managers -> Job]
      BY <1>1, <1>7, <2>1 DEF IssueReverseShipment, Pcs
    <2>. QED
      BY <1>7, <2>2 DEF IssueReverseShipment, Types
  <1>8. ASSUME NEW m \in Managers, NEW r \in Requests, Resolve(m, r)
        PROVE  Types'
    <2>1. \A a \in Amounts(r) : a \in Nat
      BY AmountsAre
    <2>2. job' \in [Managers -> Job]
      BY <1>1, <1>2, <1>8, <2>1 DEF Resolve, Job, Pcs
    <2>. QED
      BY <1>8, <2>2 DEF Resolve, Types
  <1>9. ASSUME NEW m \in Managers, CreateReverseCart(m) PROVE Types'
    <2>1. \A l \in Labels : [job[m].row EXCEPT !.label = l, !.reverse = "cart", !.posting = FALSE] \in Row
      BY <1>3 DEF Row, ParcelStates
    <2>2. request' \in [Requests -> Row] /\ job' \in [Managers -> Job]
      BY <1>9, <2>1, JobEnds DEF CreateReverseCart, Pcs
    <2>3. parcel' \in [Labels -> ParcelStates]
      BY <1>1, <1>9 DEF CreateReverseCart, ParcelStates
    <2>. QED
      BY <1>9, <2>2, <2>3 DEF CreateReverseCart, Types
  <1>10. ASSUME NEW m \in Managers, PurchaseReverseShipment(m) PROVE Types'
    <2>1. [job[m].row EXCEPT !.reverse = "purchased"] \in Row
      BY <1>3 DEF Row
    <2>2. request' \in [Requests -> Row] /\ job' \in [Managers -> Job]
      BY <1>10, <2>1, JobEnds DEF PurchaseReverseShipment, Pcs
    <2>3. parcel' \in [Labels -> ParcelStates]
      BY <1>1, <1>10 DEF PurchaseReverseShipment, ParcelStates
    <2>. QED
      BY <1>10, <2>2, <2>3 DEF PurchaseReverseShipment, Types
  <1>11. ASSUME NEW m \in Managers, GenerateReverseShipment(m) PROVE Types'
    <2>1. [job[m].row EXCEPT !.reverse = "generated", !.posting = TRUE,
                             !.status = "awaiting_posting"] \in Row
      BY <1>3, StatusSets DEF Row, ParcelStates
    <2>2. request' \in [Requests -> Row] /\ job' \in [Managers -> Job]
      BY <1>1, <1>11, <2>1, JobEnds DEF GenerateReverseShipment
    <2>3. parcel' \in [Labels -> ParcelStates]
      BY <1>1, <1>11 DEF GenerateReverseShipment, ParcelStates
    <2>. QED
      BY <1>11, <2>2, <2>3 DEF GenerateReverseShipment, Types
  <1>12. ASSUME NEW m \in Managers, RefundOrderAmount(m) PROVE Types'
    <2>1. job' \in [Managers -> Job]
      BY <1>12, JobEnds DEF RefundOrderAmount, Pcs
    <2>. QED
      BY <1>12, <2>1, CashMoves DEF RefundOrderAmount, Types
  <1>13. ASSUME NEW m \in Managers, ReleaseCredit(m) PROVE Types'
    <2>1. job' \in [Managers -> Job]
      BY <1>13, JobEnds DEF ReleaseCredit, Pcs
    <2>. QED
      BY <1>13, <2>1, CreditMoves DEF ReleaseCredit, Types
  <1>14. ASSUME NEW m \in Managers, SaveVoucher(m) PROVE Types'
    <2>1. job' \in [Managers -> Job]
      BY <1>14, JobEnds DEF SaveVoucher, Pcs
    <2>2. voucher' \in [Requests -> Nat]
      BY <1>3, <1>14 DEF SaveVoucher, Types, Job
    <2>. QED
      BY <1>14, <2>1, <2>2 DEF SaveVoucher, Types
  <1>15. ASSUME NEW m \in Managers, RestockReturn(m) PROVE Types'
    <2>1. job' \in [Managers -> Job]
      BY <1>15, JobEnds DEF RestockReturn, Pcs
    <2>2. restocked' \in [Requests -> SUBSET Lines]
      BY <1>15 DEF RestockReturn, Types, Resellable, Wanted
    <2>. QED
      BY <1>15, <2>1, <2>2 DEF RestockReturn, Types
  <1>16. ASSUME NEW m \in Managers, Complete(m) PROVE Types'
    <2>1. [job[m].row EXCEPT !.status = "completed", !.amount = job[m].amount] \in Row
      BY <1>3, StatusSets DEF Row, Job
    <2>2. request' \in [Requests -> Row] /\ job' \in [Managers -> Job]
      BY <1>1, <1>16, <2>1, JobEnds DEF Complete
    <2>. QED
      BY <1>16, <2>2 DEF Complete, Types
  <1>17. ASSUME NEW m \in Managers, Interrupt(m) PROVE Types'
    <2>1. job' \in [Managers -> Job]
      BY <1>17, JobEnds DEF Interrupt
    <2>. QED
      BY <1>17, <2>1 DEF Interrupt, Types
  <1>18. ASSUME NEW l \in Labels, CustomerPosts(l) PROVE Types'
    <2>1. parcel' \in [Labels -> ParcelStates]
      BY <1>1, <1>18 DEF CustomerPosts, ParcelStates
    <2>. QED
      BY <1>18, <2>1 DEF CustomerPosts, Types
  <1>19. ASSUME NEW l \in Labels, NEW e \in ParcelStates, ApplyReverseWebhookEvent(l, e)
         PROVE  Types'
    <2>1. request' \in [Requests -> Row]
      BY <1>2, <1>19, ApplyReverseIs DEF ApplyReverseWebhookEvent
    <2>. QED
      BY <1>19, <2>1 DEF ApplyReverseWebhookEvent, Types
  <1>20. CASE DaysPass
    BY <1>20 DEF DaysPass, Types
  <1>21. CASE UNCHANGED vars
    BY <1>21 DEF vars, Types
  <1>. QED
    BY <1>5, <1>6, <1>7, <1>8, <1>9, <1>10, <1>11, <1>12, <1>13, <1>14, <1>15, <1>16, <1>17,
       <1>18, <1>19, <1>20, <1>21 DEF Next

\* The rows, the money and what the managers are doing keep their types, in any order
\* of the steps, and no more than was paid is given back in money, or released of the
\* credit.
THEOREM TypeCorrect == Spec => [](Types /\ TypeOK)
  <1>1. Types => TypeOK
    BY DEF Types, TypeOK, Row, Job
  <1>. QED
    BY <1>1, StartsTyped, TypesStep, PTL DEF Spec

-----------------------------------------------------------------------------
(* The managers *)

Issuing == {"cart", "purchase", "generate"}
Resolving == {"refund", "release", "voucher", "restock", "complete"}

\* The copy of a handler is the row, and the row is where the handler left it.
JobOk(m) ==
    LET j == job[m]
    IN  /\ j.request = None <=> j.pc = "idle"
        /\ j.request = None => j.resolution = "none"
        /\ j.request # None => j.row = request[j.request]
        /\ j.pc \in Issuing => j.row.status = "approved" /\ j.resolution = "none"
        /\ j.pc = "cart" => j.row.label = None
        /\ j.pc \in {"purchase", "generate"} => j.row.label # None
        /\ j.pc \in Resolving =>
             /\ j.row.status \in {"received", "inspecting"}
             /\ j.resolution # "none"
             /\ j.amount > 0 /\ j.amount <= CalculatedAmount(j.request)
        /\ j.pc = "voucher" => j.resolution = "credit"
        /\ j.pc \in {"refund", "release"} => j.resolution = "refund"
        /\ j.resolution = "refund" => Kind[j.request] # "exchange"

Apart ==
    \A m, n \in Managers : m # n /\ job[m].request # None => job[n].request # job[m].request

Work == (\A m \in Managers : JobOk(m)) /\ Apart

LEMMA PcSets ==
  /\ Pcs = {"idle"} \cup Issuing \cup Resolving
  /\ Idle.pc = "idle" /\ Idle.request = None /\ Idle.resolution = "none"
  BY DEF Pcs, Issuing, Resolving, Idle

LEMMA RequestOf ==
  ASSUME Types, Work, NEW m \in Managers
  PROVE  /\ job[m] \in Job /\ job[m].pc \in Pcs /\ job[m].row \in Row
         /\ job[m].pc # "idle" =>
              /\ job[m].request \in Requests /\ job[m].request # None
              /\ job[m].row = request[job[m].request]
  BY DEF Types, Work, JobOk, Job

\* A manager who does not move keeps a copy of the row.
LEMMA OthersKeep ==
  ASSUME Work, CopiesAreFresh, NEW n \in Managers, job'[n] = job[n]
  PROVE  JobOk(n)'
  <1>1. JobOk(n) /\ (job[n].request # None => request'[job[n].request] = job'[n].row)
    BY DEF Work, CopiesAreFresh
  <1>. QED
    BY <1>1 DEF JobOk

LEMMA EndIsOk ==
  ASSUME Types, NEW m \in Managers, End(m)
  PROVE  JobOk(m)'
  <1>1. job'[m] = Idle
    BY DEF End, Types
  <1>. QED
    BY <1>1, PcSets DEF JobOk, Issuing, Resolving

\* The steps of a manager, who leaves what the others are doing alone.
Acts(m) ==
    \/ \E r \in Requests : IssueReverseShipment(m, r) \/ Resolve(m, r)
    \/ CreateReverseCart(m) \/ PurchaseReverseShipment(m) \/ GenerateReverseShipment(m)
    \/ RefundOrderAmount(m) \/ ReleaseCredit(m) \/ SaveVoucher(m) \/ RestockReturn(m)
    \/ Complete(m) \/ Interrupt(m)

LEMMA ActsAlone ==
  ASSUME Types, NEW m \in Managers, Acts(m)
  PROVE  \A n \in Managers \ {m} : job'[n] = job[n]
  <1>1. job \in [Managers -> Job]
    BY DEF Types
  <1>2. /\ \A pc : Goto(m, pc) => \A n \in Managers \ {m} : job'[n] = job[n]
        /\ End(m) => \A n \in Managers \ {m} : job'[n] = job[n]
        /\ \A row, pc : SaveRow(m, row, pc) => \A n \in Managers \ {m} : job'[n] = job[n]
        /\ SaveFailed(m) => \A n \in Managers \ {m} : job'[n] = job[n]
    BY <1>1 DEF Goto, End, SaveRow, SaveFailed
  <1>3. CASE \E r \in Requests : IssueReverseShipment(m, r) \/ Resolve(m, r)
    BY <1>1, <1>3 DEF IssueReverseShipment, Resolve
  <1>4. CASE CreateReverseCart(m) \/ PurchaseReverseShipment(m) \/ GenerateReverseShipment(m)
    BY <1>2, <1>4 DEF CreateReverseCart, PurchaseReverseShipment, GenerateReverseShipment
  <1>5. CASE RefundOrderAmount(m) \/ ReleaseCredit(m) \/ SaveVoucher(m)
    BY <1>2, <1>5 DEF RefundOrderAmount, ReleaseCredit, SaveVoucher
  <1>6. CASE RestockReturn(m) \/ Complete(m) \/ Interrupt(m)
    BY <1>2, <1>6 DEF RestockReturn, Complete, Interrupt
  <1>. QED
    BY <1>3, <1>4, <1>5, <1>6 DEF Acts

LEMMA WorkStarts == Init => Work
  BY PcSets DEF Init, Work, Apart, JobOk, Issuing, Resolving

LEMMA WorkStep ==
  ASSUME Types, Work, Next \/ UNCHANGED vars, CopiesAreFresh, RequestsApart
  PROVE  Work'
  <1>. USE DEF At
  <1>. SUFFICES ASSUME NEW m \in Managers, job'[m] # job[m]
                PROVE  JobOk(m)'
    BY OthersKeep DEF Work, Apart, RequestsApart
  <1>1. JobOk(m) /\ job \in [Managers -> Job]
    BY DEF Work, Types
  <1>2. job[m].request # None /\ job'[m].request # None => request'[job[m].request] = job'[m].row
    BY DEF CopiesAreFresh
  <1>3. CASE \E r \in Requests : IssueReverseShipment(m, r)
    <2>. PICK r \in Requests : IssueReverseShipment(m, r)
      BY <1>3
    <2>1. /\ job'[m].pc \in Issuing /\ job'[m].request = r /\ job'[m].row = request'[r]
          /\ job'[m].resolution = "none" /\ request' = request
          /\ job'[m].pc = "cart" => request[r].label = None
          /\ job'[m].pc # "cart" => request[r].label # None
          /\ request[r].status = "approved" /\ r # None
      BY <1>1, ReturnsAssumption DEF IssueReverseShipment, Idle, Issuing
    <2>. QED
      BY <2>1 DEF JobOk, Issuing, Resolving
  <1>4. CASE \E r \in Requests : Resolve(m, r)
    <2>. PICK r \in Requests : Resolve(m, r)
      BY <1>4
    <2>1. /\ job'[m].pc \in {"voucher", "refund"} /\ job'[m].request = r
          /\ job'[m].row = request'[r]
          /\ job'[m].resolution = IF job'[m].pc = "voucher" THEN "credit" ELSE "refund"
          /\ Kind[r] = "exchange" => job'[m].resolution = "credit"
          /\ job'[m].amount \in Amounts(r)
          /\ request[r].status \in {"received", "inspecting"} /\ request' = request /\ r # None
      BY <1>1, ReturnsAssumption DEF Resolve
    <2>2. job'[m].amount > 0 /\ job'[m].amount <= CalculatedAmount(r)
      BY <2>1, AmountsAre
    <2>. QED
      BY <2>1, <2>2 DEF JobOk, Issuing, Resolving
  <1>5. CASE CreateReverseCart(m)
    <2>1. CASE SaveFailed(m)
      BY <2>1, EndIsOk DEF SaveFailed
    <2>2. ASSUME NEW l \in Labels,
                 SaveRow(m, [job[m].row EXCEPT !.label = l, !.reverse = "cart", !.posting = FALSE],
                         "purchase")
          PROVE  JobOk(m)'
      <3>1. job[m].row \in Row /\ l # None
        BY <1>1, ReturnsAssumption DEF Job
      <3>2. /\ job'[m].pc = "purchase" /\ job'[m].request = job[m].request
            /\ job'[m].resolution = job[m].resolution
            /\ job'[m].row.label = l /\ job'[m].row.status = job[m].row.status
        BY <1>1, <2>2, <3>1 DEF SaveRow, Row
      <3>. QED
        BY <1>1, <1>2, <1>5, <3>1, <3>2 DEF JobOk, Issuing, Resolving, CreateReverseCart
    <2>. QED
      BY <1>5, <2>1, <2>2 DEF CreateReverseCart
  <1>6. CASE PurchaseReverseShipment(m)
    <2>1. CASE SaveFailed(m)
      BY <2>1, EndIsOk DEF SaveFailed
    <2>2. CASE SaveRow(m, [job[m].row EXCEPT !.reverse = "purchased"], "generate")
      <3>1. job[m].row \in Row
        BY <1>1 DEF Job
      <3>2. /\ job'[m].pc = "generate" /\ job'[m].request = job[m].request
            /\ job'[m].resolution = job[m].resolution
            /\ job'[m].row.label = job[m].row.label
            /\ job'[m].row.status = job[m].row.status
        BY <1>1, <2>2, <3>1 DEF SaveRow, Row
      <3>. QED
        BY <1>1, <1>2, <1>6, <3>2 DEF JobOk, Issuing, Resolving, PurchaseReverseShipment
    <2>. QED
      BY <1>6, <2>1, <2>2 DEF PurchaseReverseShipment
  <1>7. CASE GenerateReverseShipment(m) \/ Complete(m) \/ Interrupt(m)
    BY <1>7, EndIsOk DEF GenerateReverseShipment, SaveFailed, Complete, Interrupt
  <1>8. CASE RefundOrderAmount(m) \/ ReleaseCredit(m) \/ SaveVoucher(m) \/ RestockReturn(m)
    <2>1. CASE End(m)
      BY <2>1, EndIsOk
    <2>2. ASSUME NEW pc \in {"release", "restock", "complete"}, Goto(m, pc),
                 job[m].pc \in Resolving, pc = "release" => job[m].pc = "refund"
          PROVE  JobOk(m)'
      <3>1. job'[m] = [job[m] EXCEPT !.pc = pc]
        BY <1>1, <2>2 DEF Goto
      <3>2. /\ job'[m].pc = pc /\ job'[m].request = job[m].request
            /\ job'[m].resolution = job[m].resolution /\ job'[m].row = job[m].row
            /\ job'[m].amount = job[m].amount
        BY <1>1, <3>1 DEF Job
      <3>. QED
        BY <1>1, <1>2, <2>2, <3>2 DEF JobOk, Issuing, Resolving
    <2>. QED
      BY <1>8, <2>1, <2>2 DEF RefundOrderAmount, ReleaseCredit, SaveVoucher, RestockReturn, Resolving
  <1>9. CASE UNCHANGED job
    BY <1>9
  <1>10. CASE \E n \in Managers : Acts(n)
    <2>. PICK n \in Managers : Acts(n)
      BY <1>10
    <2>1. n = m
      BY ActsAlone
    <2>. QED
      BY <1>3, <1>4, <1>5, <1>6, <1>7, <1>8, <2>1 DEF Acts
  <1>. QED
    BY <1>9, <1>10
       DEF Next, Acts, vars, DaysPass, ReadClaims, Create, Cancel, Update, CustomerPosts,
           ApplyReverseWebhookEvent

-----------------------------------------------------------------------------
(* The rows *)

AbsentIsBlank == \A r \in Requests : request[r].status = "absent" => request[r] = NoRequest

\* What a step may do to a row that exists: its label stays, and what is closed stays so.
Moves(r) ==
    /\ request[r].status # "absent" /\ request'[r].status # "absent"
    /\ request[r].label # None => request'[r].label = request[r].label
    /\ request[r].status \in Closed =>
         /\ request'[r].status = request[r].status
         /\ request'[r].condition = request[r].condition
         /\ request'[r].amount = request[r].amount
    /\ request'[r].status = "completed" =>
         \/ request[r].status = "completed"
         \/ \E m \in Managers : Complete(m) /\ job[m].request = r

LEMMA RowMoves ==
  ASSUME Types, Work, AbsentIsBlank, Next \/ UNCHANGED vars, EventsInTime, NEW q \in Requests
  PROVE  request'[q] = request[q] \/ Create(q) \/ Moves(q)
  <1>. USE DEF At
  <1>1. /\ request \in [Requests -> Row] /\ request[q] \in Row
        /\ request[q].status \in Statuses /\ request[q].label \in Labels \cup {None}
    BY DEF Types, Row
  <1>2. CASE UNCHANGED request
    BY <1>2
  <1>3. ASSUME NEW r \in Requests, Create(r)
        PROVE  request'[q] = request[q] \/ Create(q)
    BY <1>1, <1>3 DEF Create
  <1>4. ASSUME NEW r \in Requests, Cancel(r)
        PROVE  request'[q] = request[q] \/ Moves(q)
    <2>1. CASE q = r
      BY <1>1, <1>4, <2>1, StatusSets DEF Cancel, Moves, Row
    <2>. QED
      BY <1>1, <1>4, <2>1 DEF Cancel
  <1>5. ASSUME NEW r \in Requests, Update(r)
        PROVE  request'[q] = request[q] \/ Moves(q)
    <2>1. CASE q = r
      <3>1. ByHand \subseteq Statuses \ {"absent", "completed"}
        BY StatusSets, ReturnsAssumption
      <3>2. request[r].status \in Open
        BY <1>5 DEF Update
      <3>3. \/ request'[r].status = request[r].status /\ request'[r].label = request[r].label
            \/ request'[r].status \in ByHand /\ request'[r].label = request[r].label
        <4>1. ASSUME NEW line, NEW c, request' = [request EXCEPT ![r].condition[line] = c]
              PROVE  request'[r].status = request[r].status /\ request'[r].label = request[r].label
          BY <1>1, <2>1, <4>1 DEF Row
        <4>2. ASSUME request' = [request EXCEPT ![r].posting = TRUE]
              PROVE  request'[r].status = request[r].status /\ request'[r].label = request[r].label
          BY <1>1, <2>1, <4>2 DEF Row
        <4>3. ASSUME NEW s \in ByHand, request' = [request EXCEPT ![r].status = s]
              PROVE  request'[r].status \in ByHand /\ request'[r].label = request[r].label
          BY <1>1, <2>1, <4>3 DEF Row
        <4>. QED
          BY <1>5, <4>1, <4>2, <4>3 DEF Update
      <3>. QED
        BY <2>1, <3>1, <3>2, <3>3, StatusSets DEF Moves
    <2>2. CASE q # r
      BY <1>1, <1>5, <2>2 DEF Update
    <2>. QED
      BY <2>1, <2>2
  <1>6. ASSUME NEW m \in Managers,
               \/ CreateReverseCart(m) \/ PurchaseReverseShipment(m)
               \/ GenerateReverseShipment(m) \/ Complete(m)
        PROVE  request'[q] = request[q] \/ Moves(q)
    <2>. DEFINE r == job[m].request
                row == job[m].row
    <2>1. job[m].pc # "idle" /\ JobOk(m)
      BY <1>6 DEF CreateReverseCart, PurchaseReverseShipment, GenerateReverseShipment, Complete, Work
    <2>2. r \in Requests /\ row = request[r] /\ row \in Row
      BY <2>1, RequestOf
    <2>3. CASE q # r
      BY <1>1, <1>6, <2>3 DEF CreateReverseCart, PurchaseReverseShipment, GenerateReverseShipment,
         Complete, SaveRow, SaveFailed
    <2>4. CASE q = r /\ SaveFailed(m)
      BY <1>1, <2>2, <2>4 DEF SaveFailed
    <2>5. CASE q = r /\ ~SaveFailed(m)
      <3>1. CASE CreateReverseCart(m)
        <4>1. PICK l \in Labels : request' = [request EXCEPT ![r] =
                     [row EXCEPT !.label = l, !.reverse = "cart", !.posting = FALSE]]
          BY <2>5, <3>1 DEF CreateReverseCart, SaveRow
        <4>2. row.label = None /\ row.status = "approved"
          BY <2>1, <3>1 DEF JobOk, CreateReverseCart, Issuing
        <4>3. request'[q].status = "approved"
          BY <1>1, <2>2, <2>5, <4>1, <4>2 DEF Row
        <4>. QED
          BY <2>2, <2>5, <4>2, <4>3, StatusSets DEF Moves
      <3>2. CASE PurchaseReverseShipment(m)
        <4>1. request' = [request EXCEPT ![r] = [row EXCEPT !.reverse = "purchased"]]
          BY <2>5, <3>2 DEF PurchaseReverseShipment, SaveRow
        <4>2. row.status = "approved"
          BY <2>1, <3>2 DEF JobOk, PurchaseReverseShipment, Issuing
        <4>3. request'[q].status = "approved" /\ request'[q].label = row.label
          BY <1>1, <2>2, <2>5, <4>1, <4>2 DEF Row
        <4>. QED
          BY <2>2, <2>5, <4>2, <4>3, StatusSets DEF Moves
      <3>3. CASE GenerateReverseShipment(m)
        <4>1. request' = [request EXCEPT ![r] = [row EXCEPT !.reverse = "generated",
                                        !.posting = TRUE, !.status = "awaiting_posting"]]
          BY <2>5, <3>3 DEF GenerateReverseShipment
        <4>2. row.status = "approved"
          BY <2>1, <3>3 DEF JobOk, GenerateReverseShipment, Issuing
        <4>3. request'[q].status = "awaiting_posting" /\ request'[q].label = row.label
          BY <1>1, <2>2, <2>5, <4>1, <4>2 DEF Row
        <4>. QED
          BY <2>2, <2>5, <4>2, <4>3, StatusSets DEF Moves
      <3>4. CASE Complete(m)
        <4>1. request' = [request EXCEPT ![r] = [row EXCEPT !.status = "completed",
                                                            !.amount = job[m].amount]]
          BY <3>4 DEF Complete
        <4>2. row.status \in {"received", "inspecting"}
          BY <2>1, <3>4 DEF JobOk, Complete, Resolving
        <4>3. request'[q].status = "completed" /\ request'[q].label = row.label
          BY <1>1, <2>2, <2>5, <4>1, <4>2 DEF Row
        <4>. QED
          BY <2>2, <2>5, <3>4, <4>2, <4>3, StatusSets DEF Moves
      <3>. QED
        BY <1>6, <3>1, <3>2, <3>3, <3>4
    <2>. QED
      BY <2>3, <2>4, <2>5
  <1>7. ASSUME NEW l \in Labels, NEW e \in ParcelStates, ApplyReverseWebhookEvent(l, e)
        PROVE  request'[q] = request[q] \/ Moves(q)
    <2>1. CASE request[q].label # l
      BY <1>7, <2>1 DEF ApplyReverseWebhookEvent
    <2>2. CASE request[q].label = l
      <3>1. request'[q] = ApplyReverse(request[q], e)
        BY <1>7, <2>2 DEF ApplyReverseWebhookEvent
      <3>2. request[q].status # "absent"
        BY <2>2, ReturnsAssumption DEF AbsentIsBlank, NoRequest
      <3>3. request[q].status \in Closed => request'[q].status = request[q].status
        BY DEF EventsInTime
      <3>4. /\ request'[q].condition = request[q].condition /\ request'[q].label = request[q].label
            /\ request'[q].amount = request[q].amount
            /\ request'[q].status # request[q].status =>
                  request'[q].status \in {"returning", "received", "awaiting_posting"}
        BY <1>1, <3>1, ApplyReverseIs
      <3>. QED
        BY <3>2, <3>3, <3>4 DEF Moves
    <2>. QED
      BY <2>1, <2>2
  <1>. QED
    BY <1>2, <1>3, <1>4, <1>5, <1>6, <1>7
       DEF Next, vars, DaysPass, ReadClaims, IssueReverseShipment, Resolve, RefundOrderAmount,
           ReleaseCredit, SaveVoucher, RestockReturn, Interrupt, CustomerPosts

-----------------------------------------------------------------------------
(* The claims *)

Locks ==
    /\ \A r, s \in lockedBy : r = s
    /\ \A r \in lockedBy : request[r].status = "absent" /\ Available(r)

Claims == ClaimsFitTheOrder /\ Locks /\ AbsentIsBlank

LEMMA ClaimsStart == Init => Claims
  <1>. SUFFICES ASSUME Init PROVE Claims
    OBVIOUS
  <1>1. Live = {} /\ AbsentIsBlank /\ lockedBy = {}
    BY DEF Init, Live, NoRequest, AbsentIsBlank
  <1>2. \A line \in Lines : Claimed(line) = 0
    BY <1>1, LiveFacts, TotalEmpty
  <1>. QED
    BY <1>1, <1>2, OrderFacts DEF Claims, ClaimsFitTheOrder, Locks

\* What the requests of live claim of a line.
ClaimedBy(live, line) == Total([r \in Requests |-> Items[r][line]], live)

LEMMA ClaimsFitIs ==
  /\ ClaimsFitTheOrder <=> \A line \in Lines : ClaimedBy(Live, line) <= Sold[line]
  /\ ClaimsFitTheOrder' <=> \A line \in Lines : ClaimedBy(Live', line) <= Sold[line]
  /\ \A r \in Requests :
        /\ Available(r) <=> \A line \in Wanted(r) : Items[r][line] <= Sold[line] - ClaimedBy(Live, line)
        /\ Available(r)' <=> \A line \in Wanted(r) : Items[r][line] <= Sold[line] - ClaimedBy(Live', line)
  BY DEF ClaimsFitTheOrder, Claimed, ClaimedBy, Live, Available

LEMMA ClaimsOf ==
  ASSUME NEW live \in SUBSET Requests, NEW line \in Lines
  PROVE  /\ ClaimedBy(live, line) \in Nat
         /\ \A part \in SUBSET live : ClaimedBy(part, line) <= ClaimedBy(live, line)
         /\ \A q \in Requests \ live :
               ClaimedBy(live \cup {q}, line) = ClaimedBy(live, line) + Items[q][line]
  <1>. DEFINE f == [r \in Requests |-> Items[r][line]]
  <1>1. IsFiniteSet(live) /\ \A r \in Requests : f[r] \in Nat /\ f[r] = Items[r][line]
    BY OrderFacts, FS_Subset
  <1>2. \A set : ClaimedBy(set, line) = Total(f, set)
    BY DEF ClaimedBy
  <1>. HIDE DEF f
  <1>3. Total(f, live) \in Nat
    BY <1>1, TotalNat
  <1>4. \A part \in SUBSET live : Total(f, part) <= Total(f, live)
    BY <1>1, TotalOfPart
  <1>5. \A q \in Requests \ live : Total(f, live \cup {q}) = f[q] + Total(f, live)
    BY <1>1, TotalInsert
  <1>. QED
    BY <1>1, <1>2, <1>3, <1>4, <1>5

LEMMA ClaimsStep ==
  ASSUME Types, Types', Work, Claims, Next \/ UNCHANGED vars, EventsInTime
  PROVE  Claims'
  <1>1. \A q \in Requests : request'[q] = request[q] \/ Create(q) \/ Moves(q)
    BY RowMoves DEF Claims
  <1>2. ASSUME NEW r \in Requests, Create(r)
        PROVE  Claims'
    <2>1. /\ r \in lockedBy /\ lockedBy' = {} /\ request[r] = NoRequest /\ Available(r)
          /\ request' = [request EXCEPT ![r].status = "requested"]
      BY <1>2 DEF Create, Claims, Locks, AbsentIsBlank, Types
    <2>2. request'[r].status = "requested" /\ \A q \in Requests \ {r} : request'[q] = request[q]
      BY <2>1 DEF Types, NoRequest
    <2>3. r \notin Live /\ Live' = Live \cup {r}
      BY <2>1, <2>2 DEF Live, Dead, NoRequest
    <2>4. ASSUME NEW line \in Lines PROVE ClaimedBy(Live', line) <= Sold[line]
      <3>1. /\ ClaimedBy(Live', line) = ClaimedBy(Live, line) + Items[r][line]
            /\ ClaimedBy(Live, line) \in Nat /\ ClaimedBy(Live, line) <= Sold[line]
        BY <2>3, LiveFacts, ClaimsOf, ClaimsFitIs DEF Claims
      <3>2. CASE line \in Wanted(r)
        <4>1. Items[r][line] <= Sold[line] - ClaimedBy(Live, line)
          BY <2>1, <3>2, ClaimsFitIs
        <4>. QED
          BY <3>1, <4>1, OrderFacts
      <3>3. CASE line \notin Wanted(r)
        <4>1. Items[r][line] = 0
          BY <3>3, OrderFacts DEF Wanted
        <4>. QED
          BY <3>1, <4>1
      <3>. QED
        BY <3>2, <3>3
    <2>5. AbsentIsBlank'
      BY <2>2 DEF AbsentIsBlank, Claims
    <2>. QED
      BY <2>1, <2>4, <2>5, ClaimsFitIs DEF Claims, Locks
  <1>3. ASSUME \A q \in Requests : request'[q] = request[q] \/ Moves(q)
        PROVE  Claims'
    <2>1. \A q \in Requests : request'[q].status = "absent" => request'[q] = request[q]
      BY <1>3 DEF Moves
    <2>2. Live' \subseteq Live
      BY <1>3 DEF Live, Moves, Closed, Dead
    <2>3. ASSUME NEW line \in Lines
          PROVE  /\ ClaimedBy(Live', line) <= ClaimedBy(Live, line)
                 /\ ClaimedBy(Live, line) \in Nat /\ ClaimedBy(Live', line) \in Nat
      <3>1. Live \in SUBSET Requests /\ Live' \in SUBSET Live
        BY <2>2, LiveFacts
      <3>. QED
        BY <3>1, ClaimsOf
    <2>4. ClaimsFitTheOrder'
      BY <2>3, ClaimsFitIs, OrderFacts DEF Claims
    <2>5. AbsentIsBlank'
      BY <2>1 DEF AbsentIsBlank, Claims
    <2>6. ASSUME NEW r \in lockedBy'
          PROVE  request'[r].status = "absent" /\ Available(r)'
      <3>1. r \in Requests
        BY DEF Types
      <3>2. request[r].status = "absent" /\ Available(r)
        <4>1. CASE r \in lockedBy
          BY <4>1 DEF Claims, Locks
        <4>2. CASE r \notin lockedBy
          <5>1. ReadClaims(r)
            BY <4>2 DEF Next, vars, moneyVars, carrierVars, DaysPass, ReadClaims, Create, Cancel, Update,
               IssueReverseShipment, Resolve, CreateReverseCart, PurchaseReverseShipment,
               GenerateReverseShipment, RefundOrderAmount, ReleaseCredit, SaveVoucher,
               RestockReturn, Complete, Interrupt, CustomerPosts, ApplyReverseWebhookEvent
          <5>. QED
            BY <5>1 DEF ReadClaims
        <4>. QED
          BY <4>1, <4>2
      <3>3. request'[r].status = "absent"
        BY <1>3, <3>1, <3>2 DEF Moves
      <3>4. ASSUME NEW line \in Wanted(r)
            PROVE  Items[r][line] <= Sold[line] - ClaimedBy(Live', line)
        <4>1. line \in Lines /\ Items[r][line] <= Sold[line] - ClaimedBy(Live, line)
          BY <3>1, <3>2, ClaimsFitIs DEF Wanted
        <4>. QED
          BY <2>3, <3>1, <4>1, OrderFacts
      <3>. QED
        BY <3>1, <3>3, <3>4, ClaimsFitIs
    <2>7. \A r, s \in lockedBy' : r = s
      <3>1. CASE lockedBy' = lockedBy
        BY <3>1 DEF Claims, Locks
      <3>2. CASE lockedBy' # lockedBy
        <4>1. PICK r \in Requests : ReadClaims(r) \/ Create(r)
          BY <3>2 DEF Next, vars, moneyVars, carrierVars, DaysPass, ReadClaims, Create, Cancel, Update,
             IssueReverseShipment, Resolve, CreateReverseCart, PurchaseReverseShipment,
             GenerateReverseShipment, RefundOrderAmount, ReleaseCredit, SaveVoucher,
             RestockReturn, Complete, Interrupt, CustomerPosts, ApplyReverseWebhookEvent
        <4>. QED
          BY <4>1 DEF ReadClaims, Create, LockFree, Claims, Locks
      <3>. QED
        BY <3>1, <3>2
    <2>. QED
      BY <2>4, <2>5, <2>6, <2>7 DEF Claims, Locks
  <1>. QED
    BY <1>1, <1>2, <1>3

-----------------------------------------------------------------------------
(* The labels *)

LEMMA LabelsStep ==
  ASSUME Types, Work, Claims, OneReverseLabelPaid, Next \/ UNCHANGED vars, EventsInTime
  PROVE  OneReverseLabelPaid'
  <1>. USE DEF At
  <1>1. parcel \in [Labels -> ParcelStates] /\ request \in [Requests -> Row]
    BY DEF Types
  <1>2. ASSUME NEW l \in Labels, parcel'[l] \notin {"none", "cart"}
        PROVE  \E r \in Requests : request[r].label = l
    <2>1. CASE parcel[l] \notin {"none", "cart"}
      BY <2>1 DEF OneReverseLabelPaid
    <2>2. CASE parcel[l] \in {"none", "cart"}
      <3>1. \E m \in Managers : PurchaseReverseShipment(m)
        BY <1>1, <1>2, <2>2 DEF Next, vars, moneyVars, carrierVars, DaysPass, ReadClaims, Create, Cancel,
           Update, IssueReverseShipment, Resolve, CreateReverseCart, GenerateReverseShipment,
           RefundOrderAmount, ReleaseCredit, SaveVoucher, RestockReturn, Complete, Interrupt,
           CustomerPosts, ApplyReverseWebhookEvent
      <3>2. PICK m \in Managers : PurchaseReverseShipment(m)
        BY <3>1
      <3>3. l = job[m].row.label
        BY <1>1, <1>2, <2>2, <3>2 DEF PurchaseReverseShipment
      <3>. QED
        BY <3>2, <3>3, RequestOf DEF PurchaseReverseShipment
    <2>. QED
      BY <2>1, <2>2
  <1>3. ASSUME NEW l \in Labels, NEW r \in Requests, request[r].label = l
        PROVE  request'[r].label = l
    <2>1. l # None
      BY ReturnsAssumption
    <2>2. CASE Create(r)
      BY <1>1, <1>3, <2>2 DEF Create, Row
    <2>3. CASE Moves(r)
      BY <1>3, <2>1, <2>3 DEF Moves
    <2>. QED
      BY <1>3, <2>2, <2>3, RowMoves DEF Claims
  <1>. QED
    BY <1>2, <1>3 DEF OneReverseLabelPaid

CalmInv == Types /\ Work /\ Claims /\ OneReverseLabelPaid

CalmNext == Next /\ CopiesAreFresh /\ RequestsApart /\ EventsInTime

LEMMA CalmStarts == Init => CalmInv
  <1>1. Init => OneReverseLabelPaid
    BY DEF Init, OneReverseLabelPaid
  <1>. QED
    BY <1>1, StartsTyped, WorkStarts, ClaimsStart DEF CalmInv

LEMMA CalmStep ==
  ASSUME CalmInv, [CalmNext]_vars
  PROVE  CalmInv'
  <1>1. Types'
    BY TypesStep DEF CalmInv, CalmNext
  <1>2. CASE CalmNext
    BY <1>1, <1>2, WorkStep, ClaimsStep, LabelsStep DEF CalmInv, CalmNext
  <1>3. CASE UNCHANGED vars
    <2>1. CopiesAreFresh /\ EventsInTime /\ RequestsApart
      BY <1>3 DEF CalmInv, Work, JobOk, Apart, CopiesAreFresh, EventsInTime, RequestsApart, vars
    <2>. QED
      BY <1>1, <1>3, <2>1, WorkStep, ClaimsStep, LabelsStep DEF CalmInv
  <1>. QED
    BY <1>2, <1>3

LEMMA CalmHolds == CalmSpec => []CalmInv
  <1>1. CalmInv /\ [CalmNext]_vars => CalmInv'
    BY CalmStep
  <1>. QED
    BY <1>1, CalmStarts, PTL DEF CalmSpec, CalmNext

\* With no stale copy saved and no webhook after the end, the requests that live never
\* claim more of a line than was bought, for any number of requests asked for at once,
\* canceled or rejected, and any number of managers.
THEOREM ClaimsFitTheOrderHolds == CalmSpec => []ClaimsFitTheOrder
  <1>1. CalmInv => ClaimsFitTheOrder
    BY DEF CalmInv, Claims
  <1>. QED
    BY <1>1, CalmHolds, PTL

\* Under the same schedule every reverse label that was paid is the label of a request,
\* whatever answers of the carrier are lost and however often it is issued.
THEOREM OneReverseLabelPaidHolds == CalmSpec => []OneReverseLabelPaid
  <1>1. CalmInv => OneReverseLabelPaid
    BY DEF CalmInv
  <1>. QED
    BY <1>1, CalmHolds, PTL

-----------------------------------------------------------------------------
(* The money *)

Given(r) == refunded[r] + voucher[r]

Settled(r, a) == Given(r) <= a /\ a - Given(r) <= Total(Sold, Lines)

Untouched(r) == refunded[r] = 0 /\ voucher[r] = 0 /\ restocked[r] = {}

\* No resolution was begun, or one that was interrupted after its new credit.
Begun(r) ==
    /\ r \notin Interrupted => Untouched(r)
    /\ refunded[r] = 0 /\ (voucher[r] = 0 => restocked[r] = {})

Resolved(r) == \E m \in Managers : job[m].request = r /\ job[m].resolution # "none"

RowMoney(r) ==
    /\ Given(r) <= CalculatedAmount(r)
    /\ request[r].status = "absent" => Untouched(r)
    /\ request[r].status # "completed" /\ ~Resolved(r) => Begun(r)
    /\ request[r].status = "completed" =>
         /\ Settled(r, request[r].amount)
         /\ restocked[r] = Resellable(request[r], r)

\* What the step m is at tells of the money of its request.
JobMoney(m) ==
    LET r == job[m].request
        a == job[m].amount
    IN  /\ job[m].pc \in {"refund", "voucher"} => Begun(r)
        /\ job[m].pc = "release" =>
             /\ refunded[r] = Min({OrderTotal, CashPart(a)})
             /\ voucher[r] = 0 /\ restocked[r] = {}
        /\ job[m].pc \in {"restock", "complete"} =>
             /\ Settled(r, a)
             /\ job[m].resolution = "credit" => refunded[r] = 0 /\ voucher[r] = a
        /\ job[m].pc = "restock" => restocked[r] = {}
        /\ job[m].pc = "complete" => restocked[r] = Resellable(job[m].row, r)

\* The requests whose part of the credit may have been released.
Released ==
    {r \in Requests :
        /\ Kind[r] # "exchange"
        /\ \/ request[r].status = "completed"
           \/ \E m \in Managers : job[m].request = r /\ job[m].pc \in {"restock", "complete"}}

CreditCovered == creditBack <= Total(Credits, Released)

Money ==
    /\ \A r \in Requests : RowMoney(r)
    /\ \A m \in Managers : JobMoney(m)
    /\ CreditCovered

LEMMA MoneyStarts == Init => Money
  <1>. SUFFICES ASSUME Init PROVE Money
    OBVIOUS
  <1>1. \A r \in Requests : RowMoney(r)
    BY WorthFacts DEF Init, RowMoney, Given, Untouched, Begun, NoRequest
  <1>2. \A m \in Managers : JobMoney(m)
    BY PcSets DEF Init, JobMoney
  <1>3. Released = {}
    BY PcSets DEF Init, Released, NoRequest
  <1>4. CreditCovered
    BY <1>3, TotalEmpty DEF Init, CreditCovered
  <1>. QED
    BY <1>1, <1>2, <1>4 DEF Money

LEMMA ReleasedSets == Released \in SUBSET Requests /\ Released' \in SUBSET Requests
  BY DEF Released

LEMMA CoveredStays ==
  ASSUME Types, CreditCovered, creditBack' = creditBack, Released \subseteq Released'
  PROVE  CreditCovered'
  <1>. DEFINE new == Released'
  <1>1. new \in SUBSET Requests /\ IsFiniteSet(new) /\ Released \in SUBSET new
    BY ReleasedSets, OrderFacts, FS_Subset
  <1>. HIDE DEF new
  <1>2. Total(Credits, Released) <= Total(Credits, new)
    BY <1>1, CreditsFacts, TotalOfPart
  <1>3. Total(Credits, Released) \in Nat /\ Total(Credits, new) \in Nat
    <2>1. IsFiniteSet(Released)
      BY ReleasedSets, OrderFacts, FS_Subset
    <2>. QED
      BY <1>1, <2>1, ReleasedSets, CreditsFacts, TotalNat
  <1>4. creditBack \in Nat /\ Credits' = Credits
    BY OrderFacts DEF Types, Credits
  <1>5. creditBack' <= Total(Credits, new)
    BY <1>2, <1>3, <1>4 DEF CreditCovered
  <1>. QED
    BY <1>5 DEF CreditCovered, new, Credits

\* A step that touches neither the money nor the resolutions.
LEMMA QuietStep ==
  ASSUME Types, Work, Claims, Money, Next \/ UNCHANGED vars, EventsInTime,
         UNCHANGED <<refunded, voucher, restocked, creditBack>>,
         \A m \in Managers :
            \/ job'[m] = job[m]
            \/ /\ job[m].pc \notin Resolving /\ job'[m].pc \notin Resolving
               /\ job[m].resolution = "none" /\ job'[m].resolution = "none",
         \A m \in Managers : ~Complete(m)
  PROVE  Money'
  <1>1. \A q \in Requests : request'[q] = request[q] \/ Create(q) \/ Moves(q)
    BY RowMoves DEF Claims
  <1>2. ASSUME NEW q \in Requests, Create(q)
        PROVE  request[q] = NoRequest /\ request'[q].status = "requested"
    <2>1. request[q] = NoRequest
      BY <1>2 DEF Create, Claims, Locks, AbsentIsBlank
    <2>. QED
      BY <1>2, <2>1 DEF Create, Types, NoRequest
  <1>3. \A q \in Requests : request'[q].status = "absent" => request[q].status = "absent"
    BY <1>1, <1>2 DEF Moves
  <1>4. \A q \in Requests : /\ request'[q].status = "completed" <=> request[q].status = "completed"
                            /\ request'[q].status = "completed" =>
                                  /\ request'[q].condition = request[q].condition
                                  /\ request'[q].amount = request[q].amount
    <2>. SUFFICES ASSUME NEW q \in Requests
                  PROVE  /\ request'[q].status = "completed" <=> request[q].status = "completed"
                         /\ request'[q].status = "completed" =>
                                  /\ request'[q].condition = request[q].condition
                                  /\ request'[q].amount = request[q].amount
      OBVIOUS
    <2>1. CASE request'[q] = request[q]
      BY <2>1
    <2>2. CASE Create(q)
      BY <1>2, <2>2 DEF NoRequest
    <2>3. CASE Moves(q)
      BY <2>3, StatusSets DEF Moves
    <2>. QED
      BY <1>1, <2>1, <2>2, <2>3
  <1>5. ASSUME NEW q \in Requests PROVE RowMoney(q)'
    <2>1. RowMoney(q) /\ (Resolved(q) => Resolved(q)')
      BY DEF Money, Resolved
    <2>2. request'[q].status = "completed" => Resellable(request'[q], q) = Resellable(request[q], q)
      BY <1>4 DEF Resellable
    <2>. QED
      BY <1>3, <1>4, <2>1, <2>2 DEF RowMoney, Given, Settled, Untouched, Begun
  <1>6. ASSUME NEW m \in Managers PROVE JobMoney(m)'
    <2>1. job'[m].pc \in Resolving => job'[m] = job[m]
      OBVIOUS
    <2>2. JobMoney(m)
      BY DEF Money
    <2>. QED
      BY <2>1, <2>2 DEF JobMoney, Given, Settled, Untouched, Begun, Resolving
  <1>7. Released \subseteq Released'
    BY <1>4 DEF Released, Resolving
  <1>. QED
    BY <1>5, <1>6, <1>7, CoveredStays DEF Money

\* A step of m on its request r leaves the other requests and managers alone.
ActsOn(m, r) ==
    /\ job[m].request \in {r, None} /\ job'[m].request \in {r, None}
    /\ \A n \in Managers \ {m} : job'[n] = job[n] /\ job[n].request # r
    /\ \A q \in Requests \ {r} :
        /\ request'[q] = request[q] /\ refunded'[q] = refunded[q]
        /\ voucher'[q] = voucher[q] /\ restocked'[q] = restocked[q]

LEMMA RestStep ==
  ASSUME Types, Work, Money, NEW m \in Managers, NEW r \in Requests, ActsOn(m, r)
  PROVE  /\ \A q \in Requests \ {r} : RowMoney(q)'
         /\ \A n \in Managers \ {m} : JobMoney(n)'
  <1>1. ASSUME NEW q \in Requests \ {r} PROVE RowMoney(q)'
    <2>1. RowMoney(q) /\ q # None
      BY ReturnsAssumption DEF Money
    <2>2. Resolved(q) => Resolved(q)'
      BY <2>1 DEF Resolved, ActsOn
    <2>3. /\ request'[q] = request[q] /\ refunded'[q] = refunded[q]
          /\ voucher'[q] = voucher[q] /\ restocked'[q] = restocked[q]
      BY DEF ActsOn
    <2>. QED
      BY <2>1, <2>2, <2>3 DEF RowMoney, Given, Settled, Untouched, Begun
  <1>2. ASSUME NEW n \in Managers \ {m} PROVE JobMoney(n)'
    <2>1. JobMoney(n) /\ job'[n] = job[n]
      BY DEF Money, ActsOn
    <2>2. job[n].pc \in Resolving => job[n].request \in Requests \ {r}
      BY RequestOf DEF Resolving, ActsOn
    <2>3. \A q \in Requests \ {r} :
            /\ request'[q] = request[q] /\ refunded'[q] = refunded[q]
            /\ voucher'[q] = voucher[q] /\ restocked'[q] = restocked[q]
      BY DEF ActsOn
    <2>. QED
      BY <2>1, <2>2, <2>3 DEF JobMoney, Given, Settled, Untouched, Begun, Resolving
  <1>. QED
    BY <1>1, <1>2

\* What is known of a manager in the middle of a resolution.
LEMMA ResolvingFacts ==
  ASSUME Types, Work, Money, NEW m \in Managers, job[m].pc \in Resolving
  PROVE  LET r == job[m].request
             a == job[m].amount
         IN  /\ r \in Requests /\ r # None /\ job[m].row = request[r]
             /\ request[r] \in Row /\ request[r].status \in {"received", "inspecting"}
             /\ r \in Live /\ a \in Nat /\ a > 0 /\ a <= CalculatedAmount(r)
             /\ job[m].resolution \in {"credit", "refund"}
             /\ job[m].resolution = "refund" => Kind[r] # "exchange"
             /\ \A n \in Managers \ {m} : job[n].request # r
             /\ refunded[r] \in Nat /\ voucher[r] \in Nat /\ restocked[r] \subseteq Lines
             /\ RowMoney(r) /\ JobMoney(m)
             /\ Resolved(r)
  <1>. DEFINE r == job[m].request
  <1>1. JobOk(m) /\ job[m].pc # "idle" /\ job[m] \in Job
    BY RequestOf DEF Work, Resolving
  <1>2. r \in Requests /\ r # None /\ job[m].row = request[r] /\ request[r] \in Row
    BY <1>1, RequestOf
  <1>3. /\ request[r].status \in {"received", "inspecting"}
        /\ job[m].resolution # "none" /\ job[m].amount > 0
        /\ job[m].amount <= CalculatedAmount(r)
        /\ job[m].resolution = "refund" => Kind[r] # "exchange"
    BY <1>1, <1>2 DEF JobOk
  <1>4. r \in Live
    BY <1>2, <1>3 DEF Live, Dead
  <1>5. \A n \in Managers \ {m} : job[n].request # r
    BY <1>2 DEF Work, Apart
  <1>6. refunded[r] \in Nat /\ voucher[r] \in Nat /\ restocked[r] \subseteq Lines
    BY <1>2 DEF Types
  <1>. QED
    BY <1>1, <1>2, <1>3, <1>4, <1>5, <1>6 DEF Money, Job, Resolved

LEMMA ResolveStep ==
  ASSUME Types, Work, Work', Money, NEW m \in Managers, NEW r \in Requests, Resolve(m, r)
  PROVE  Money'
  <1>. USE DEF At, moneyVars, carrierVars
  <1>1. /\ job' = [job EXCEPT ![m] = job'[m]] /\ job \in [Managers -> Job]
        /\ job'[m].pc \in {"voucher", "refund"} /\ job'[m].request = r
        /\ job'[m].resolution # "none"
        /\ job[m].pc = "idle" /\ job[m].request = None /\ r # None
        /\ request[r].status \in {"received", "inspecting"}
    BY ReturnsAssumption DEF Resolve, Types, Work, JobOk
  <1>2. \A n \in Managers \ {m} : job'[n] = job[n] /\ job[n].request # r
    BY <1>1 DEF Work, Apart
  <1>3. UNCHANGED <<request, refunded, voucher, restocked, creditBack>>
    BY DEF Resolve
  <1>4. ~Resolved(r)
    BY <1>1, <1>2 DEF Resolved
  <1>5. RowMoney(r) /\ Begun(r)
    BY <1>1, <1>4 DEF Money, RowMoney
  <1>6. Resolved(r)'
    BY <1>1 DEF Resolved
  <1>7. RowMoney(r)'
    BY <1>1, <1>3, <1>5, <1>6 DEF RowMoney, Given
  <1>8. JobMoney(m)'
    BY <1>1, <1>3, <1>5 DEF JobMoney, Begun, Untouched
  <1>9. Released \subseteq Released'
    <2>1. \A n \in Managers : job[n].pc \in {"restock", "complete"} => n # m
      BY <1>1
    <2>. QED
      BY <1>2, <1>3, <2>1 DEF Released
  <1>10. /\ \A q \in Requests \ {r} : RowMoney(q)'
         /\ \A n \in Managers \ {m} : JobMoney(n)'
    <2>1. ActsOn(m, r)
      BY <1>1, <1>2, <1>3 DEF ActsOn
    <2>. QED
      BY <1>2, <2>1, RestStep
  <1>. QED
    BY <1>3, <1>7, <1>8, <1>9, <1>10, CoveredStays DEF Money

LEMMA RefundStep ==
  ASSUME Types, Work, Money, InterruptedExchanges, NEW m \in Managers, RefundOrderAmount(m)
  PROVE  Money'
  <1>. USE DEF At
  <1>. SUFFICES ASSUME NEW r, NEW a, r = job[m].request, a = job[m].amount
                PROVE  Money'
    OBVIOUS
  <1>. DEFINE value == Min({OrderTotal, CashPart(a)})
  <1>1. job[m].pc = "refund" /\ job[m].pc \in Resolving /\ job \in [Managers -> Job]
    BY DEF RefundOrderAmount, Resolving, Types
  <1>2. /\ r \in Requests /\ r # None /\ request[r].status \in {"received", "inspecting"}
        /\ a \in Nat /\ a <= CalculatedAmount(r) /\ job[m].resolution = "refund"
        /\ Kind[r] # "exchange" /\ \A n \in Managers \ {m} : job[n].request # r
        /\ RowMoney(r) /\ Begun(r)
    BY <1>1, ResolvingFacts DEF JobMoney, Work, JobOk
  <1>11. Untouched(r)
    BY <1>2 DEF Begun, InterruptedExchanges
  <1>3. value \in Nat /\ value <= CalculatedAmount(r)
    <2>. DEFINE asked == CashPart(a)
    <2>1. asked \in Nat /\ asked <= a
      BY <1>2, CashPartIs, CreditPartBounds
    <2>. HIDE DEF asked
    <2>2. Min({OrderTotal, asked}) = IF OrderTotal <= asked THEN OrderTotal ELSE asked
      BY <2>1, OrderFacts, SmallerOf
    <2>3. CalculatedAmount(r) \in Nat
      BY <1>2, WorthFacts
    <2>. QED
      BY <1>2, <2>1, <2>2, <2>3, OrderFacts DEF asked
  <1>4. /\ UNCHANGED <<request, creditBack, voucher, restocked>>
        /\ \A q \in Requests \ {r} : refunded'[q] = refunded[q]
        /\ \A n \in Managers \ {m} : job'[n] = job[n]
    BY <1>1 DEF RefundOrderAmount, Goto, End, Types
  <1>5. \/ refunded'[r] = refunded[r] + value /\ job'[m] = [job[m] EXCEPT !.pc = "release"]
        \/ refunded' = refunded /\ job'[m] = Idle
    BY <1>1, <1>2 DEF RefundOrderAmount, Goto, End, Types
  <1>6. Released \subseteq Released'
    <2>1. \A n \in Managers : job[n].pc \in {"restock", "complete"} => n # m
      BY <1>1
    <2>. QED
      BY <1>4, <2>1 DEF Released
  <1>7. RowMoney(r)' /\ JobMoney(m)' /\ job'[m].request \in {r, None}
    <2>1. CASE refunded'[r] = refunded[r] + value /\ job'[m] = [job[m] EXCEPT !.pc = "release"]
      <3>1. /\ job'[m].pc = "release" /\ job'[m].request = r /\ job'[m].amount = a
            /\ job'[m].resolution = "refund"
        BY <1>1, <1>2, <2>1 DEF Job
      <3>2. refunded'[r] = value /\ voucher'[r] = 0 /\ restocked'[r] = {}
        BY <1>3, <1>4, <1>11, <2>1 DEF Untouched
      <3>3. Given(r)' = value
        BY <1>3, <3>2 DEF Given
      <3>4. Resolved(r)'
        BY <3>1 DEF Resolved
      <3>5. RowMoney(r)'
        BY <1>2, <1>3, <1>4, <3>3, <3>4 DEF RowMoney
      <3>. QED
        BY <3>1, <3>2, <3>5 DEF JobMoney
    <2>2. CASE refunded' = refunded /\ job'[m] = Idle
      <3>1. RowMoney(r)'
        BY <1>2, <1>4, <2>2 DEF RowMoney, Given, Begun, Untouched
      <3>. QED
        BY <2>2, <3>1, PcSets DEF JobMoney
    <2>. QED
      BY <1>5, <2>1, <2>2
  <1>8. /\ \A q \in Requests \ {r} : RowMoney(q)'
        /\ \A n \in Managers \ {m} : JobMoney(n)'
    <2>1. ActsOn(m, r)
      BY <1>2, <1>4, <1>7 DEF ActsOn
    <2>. QED
      BY <1>2, <2>1, RestStep
  <1>. QED
    BY <1>4, <1>6, <1>7, <1>8, CoveredStays DEF Money

LEMMA ReleaseStep ==
  ASSUME Types, Work, Claims, Money, NEW m \in Managers, ReleaseCredit(m)
  PROVE  Money'
  <1>. USE DEF At
  <1>. SUFFICES ASSUME NEW r, NEW a, r = job[m].request, a = job[m].amount
                PROVE  Money'
    OBVIOUS
  <1>. DEFINE x == Min({OrderTotal, CashPart(a)})
              y == Min({CreditPart(a), OrderCredit - creditBack})
  <1>1. job[m].pc = "release" /\ job[m].pc \in Resolving /\ job \in [Managers -> Job]
    BY DEF ReleaseCredit, Resolving, Types
  <1>2. /\ r \in Requests /\ r # None /\ request[r].status \in {"received", "inspecting"}
        /\ r \in Live /\ a \in Nat /\ a <= CalculatedAmount(r) /\ job[m].resolution = "refund"
        /\ Kind[r] # "exchange" /\ \A n \in Managers \ {m} : job[n].request # r
        /\ RowMoney(r) /\ refunded[r] = x /\ voucher[r] = 0 /\ restocked[r] = {}
    BY <1>1, ResolvingFacts DEF JobMoney, Work, JobOk
  <1>3. Released \in SUBSET (Live \ {r})
    <2>1. r \notin Released
      BY <1>1, <1>2 DEF Released
    <2>2. ASSUME NEW q \in Released PROVE q \in Live
      <3>1. CASE request[q].status = "completed"
        BY <3>1 DEF Released, Live, Dead
      <3>2. ASSUME NEW n \in Managers, job[n].request = q, job[n].pc \in {"restock", "complete"}
            PROVE  q \in Live
        BY <3>2, ResolvingFacts DEF Resolving
      <3>. QED
        BY <3>1, <3>2 DEF Released
    <2>. QED
      BY <2>1, <2>2
  <1>4. /\ x \in Nat /\ y \in Nat /\ y <= OrderCredit - creditBack /\ y <= CreditPart(a)
        /\ x + y <= a /\ a - (x + y) <= Total(Sold, Lines)
    <2>1. creditBack \in 0 .. OrderCredit /\ creditBack <= Total(Credits, Released)
      BY DEF Types, Money, CreditCovered
    <2>. QED
      BY <1>2, <1>3, <2>1, LossIsSmall DEF Claims
  <1>. HIDE DEF x, y
  <1>5. /\ UNCHANGED <<request, voucher, restocked>>
        /\ refunded'[r] = x + y
        /\ creditBack' = creditBack + y
        /\ \A q \in Requests \ {r} : refunded'[q] = refunded[q]
        /\ \A n \in Managers \ {m} : job'[n] = job[n]
        /\ job'[m] = [job[m] EXCEPT !.pc = "restock"]
    BY <1>1, <1>2 DEF ReleaseCredit, Goto, Types, y
  <1>6. /\ job'[m].pc = "restock" /\ job'[m].request = r /\ job'[m].amount = a
        /\ job'[m].resolution = "refund"
    BY <1>1, <1>2, <1>5 DEF Job
  <1>7. Given(r)' = x + y
    BY <1>2, <1>4, <1>5 DEF Given
  <1>8. RowMoney(r)' /\ JobMoney(m)'
    <2>1. Resolved(r)'
      BY <1>6 DEF Resolved
    <2>2. CalculatedAmount(r) \in Nat /\ x + y <= CalculatedAmount(r)
      BY <1>2, <1>4, WorthFacts
    <2>3. RowMoney(r)'
      BY <1>2, <1>5, <1>7, <2>1, <2>2 DEF RowMoney
    <2>4. /\ refunded'[r] + voucher'[r] <= a
          /\ a - (refunded'[r] + voucher'[r]) <= Total(Sold, Lines)
      BY <1>4, <1>7 DEF Given
    <2>5. restocked'[r] = {}
      BY <1>2, <1>5
    <2>6. JobMoney(m)'
      BY <1>6, <2>4, <2>5 DEF JobMoney, Settled, Given
    <2>. QED
      BY <2>3, <2>6
  <1>9. /\ \A q \in Requests \ {r} : RowMoney(q)'
        /\ \A n \in Managers \ {m} : JobMoney(n)'
    <2>1. \A q \in Requests \ {r} :
            /\ request'[q] = request[q] /\ refunded'[q] = refunded[q]
            /\ voucher'[q] = voucher[q] /\ restocked'[q] = restocked[q]
      BY <1>5
    <2>2. \A n \in Managers \ {m} : job'[n] = job[n] /\ job[n].request # r
      BY <1>2, <1>5
    <2>3. job[m].request \in {r, None} /\ job'[m].request \in {r, None}
      BY <1>6
    <2>. QED
      BY <1>2, <2>1, <2>2, <2>3, RestStep DEF ActsOn
  <1>10. CreditCovered'
    <2>. DEFINE new == Released'
    <2>1. Released \cup {r} \in SUBSET new /\ new \in SUBSET Requests /\ r \notin Released
      <3>1. r \in new
        BY <1>2, <1>6 DEF Released
      <3>2. Released \subseteq new
        BY <1>1, <1>5 DEF Released
      <3>. QED
        BY <1>3, <3>1, <3>2, ReleasedSets
    <2>. HIDE DEF new
    <2>2. IsFiniteSet(new) /\ IsFiniteSet(Released \cup {r}) /\ IsFiniteSet(Released)
      BY <2>1, ReleasedSets, OrderFacts, FS_Subset
    <2>3. Total(Credits, Released \cup {r}) = Credits[r] + Total(Credits, Released)
      BY <1>2, <2>1, <2>2, ReleasedSets, CreditsFacts, TotalInsert
    <2>4. Total(Credits, Released \cup {r}) <= Total(Credits, new)
      BY <2>1, <2>2, CreditsFacts, TotalOfPart
    <2>5. Total(Credits, Released) \in Nat /\ Total(Credits, new) \in Nat
      BY <2>1, <2>2, ReleasedSets, CreditsFacts, TotalNat
    <2>6. y <= Credits[r] /\ Credits[r] \in Nat
      <3>1. CalculatedAmount(r) \in Nat
        BY <1>2, WorthFacts
      <3>2. CreditPart(a) <= CreditPart(CalculatedAmount(r)) /\ CreditPart(a) \in Nat
        BY <1>2, <3>1, CreditPartGrows, CreditPartBounds
      <3>. QED
        BY <1>2, <1>4, <3>2, CreditsFacts
    <2>7. creditBack \in Nat /\ creditBack <= Total(Credits, Released)
      BY OrderFacts DEF Types, Money, CreditCovered
    <2>8. creditBack' <= Total(Credits, new)
      BY <1>4, <1>5, <2>3, <2>4, <2>5, <2>6, <2>7
    <2>. QED
      BY <2>8 DEF CreditCovered, new, Credits
  <1>. QED
    BY <1>8, <1>9, <1>10 DEF Money

LEMMA SaveVoucherStep ==
  ASSUME Types, Work, Money, NEW m \in Managers, SaveVoucher(m)
  PROVE  Money'
  <1>. USE DEF At
  <1>. SUFFICES ASSUME NEW r, NEW a, r = job[m].request, a = job[m].amount
                PROVE  Money'
    OBVIOUS
  <1>1. job[m].pc = "voucher" /\ job[m].pc \in Resolving /\ job \in [Managers -> Job]
    BY DEF SaveVoucher, Resolving, Types
  <1>2. /\ r \in Requests /\ r # None /\ request[r].status \in {"received", "inspecting"}
        /\ a \in Nat /\ a <= CalculatedAmount(r) /\ voucher[r] \in Nat
        /\ \A n \in Managers \ {m} : job[n].request # r
        /\ RowMoney(r) /\ Begun(r)
    BY <1>1, ResolvingFacts DEF JobMoney
  <1>3. job[m].resolution = "credit"
    BY <1>1 DEF Work, JobOk
  <1>4. /\ UNCHANGED <<request, creditBack, refunded, restocked>>
        /\ \A q \in Requests \ {r} : voucher'[q] = voucher[q]
        /\ \A n \in Managers \ {m} : job'[n] = job[n]
    BY <1>1 DEF SaveVoucher, Goto, End, Types
  <1>5. \/ voucher[r] = 0 /\ voucher'[r] = a /\ job'[m] = [job[m] EXCEPT !.pc = "restock"]
        \/ voucher' = voucher /\ job'[m] = Idle
    BY <1>1, <1>2 DEF SaveVoucher, Goto, End, Types
  <1>6. Released \subseteq Released'
    <2>1. \A n \in Managers : job[n].pc \in {"restock", "complete"} => n # m
      BY <1>1
    <2>. QED
      BY <1>4, <2>1 DEF Released
  <1>7. RowMoney(r)' /\ JobMoney(m)' /\ job'[m].request \in {r, None}
    <2>1. CASE voucher[r] = 0 /\ voucher'[r] = a /\ job'[m] = [job[m] EXCEPT !.pc = "restock"]
      <3>1. /\ job'[m].pc = "restock" /\ job'[m].request = r /\ job'[m].amount = a
            /\ job'[m].resolution = "credit"
        BY <1>1, <1>3, <2>1 DEF Job
      <3>2. refunded'[r] = 0 /\ voucher'[r] = a /\ restocked'[r] = {}
        BY <1>2, <1>4, <2>1 DEF Begun
      <3>3. /\ refunded'[r] + voucher'[r] = a
            /\ a - (refunded'[r] + voucher'[r]) <= Total(Sold, Lines)
        BY <1>2, <3>2, UnitsBought
      <3>4. Resolved(r)'
        BY <3>1 DEF Resolved
      <3>5. RowMoney(r)'
        BY <1>2, <1>4, <3>3, <3>4 DEF RowMoney, Given
      <3>6. JobMoney(m)'
        BY <1>2, <3>1, <3>2, <3>3 DEF JobMoney, Settled, Given
      <3>. QED
        BY <3>1, <3>5, <3>6
    <2>2. CASE voucher' = voucher /\ job'[m] = Idle
      <3>1. RowMoney(r)'
        BY <1>2, <1>4, <2>2 DEF RowMoney, Given, Begun, Untouched
      <3>. QED
        BY <2>2, <3>1, PcSets DEF JobMoney
    <2>. QED
      BY <1>5, <2>1, <2>2
  <1>8. /\ \A q \in Requests \ {r} : RowMoney(q)'
        /\ \A n \in Managers \ {m} : JobMoney(n)'
    <2>1. ActsOn(m, r)
      BY <1>2, <1>4, <1>7 DEF ActsOn
    <2>. QED
      BY <1>2, <2>1, RestStep
  <1>. QED
    BY <1>4, <1>6, <1>7, <1>8, CoveredStays DEF Money

LEMMA RestockStep ==
  ASSUME Types, Work, Money, NEW m \in Managers, RestockReturn(m)
  PROVE  Money'
  <1>. USE DEF At, moneyVars
  <1>. SUFFICES ASSUME NEW r, NEW a, r = job[m].request, a = job[m].amount
                PROVE  Money'
    OBVIOUS
  <1>1. job[m].pc = "restock" /\ job[m].pc \in Resolving /\ job \in [Managers -> Job]
    BY DEF RestockReturn, Resolving, Types
  <1>2. /\ r \in Requests /\ r # None /\ request[r].status \in {"received", "inspecting"}
        /\ \A n \in Managers \ {m} : job[n].request # r
        /\ RowMoney(r) /\ JobMoney(m) /\ job[m].resolution # "none"
    BY <1>1, ResolvingFacts
  <1>3. /\ UNCHANGED <<request, creditBack, refunded, voucher>>
        /\ restocked'[r] = restocked[r] \cup Resellable(job[m].row, r)
        /\ \A q \in Requests \ {r} : restocked'[q] = restocked[q]
        /\ \A n \in Managers \ {m} : job'[n] = job[n]
        /\ job'[m] = [job[m] EXCEPT !.pc = "complete"]
    BY <1>1, <1>2 DEF RestockReturn, Goto, Types
  <1>4. /\ job'[m].pc = "complete" /\ job'[m].request = r /\ job'[m].amount = a
        /\ job'[m].resolution = job[m].resolution /\ job'[m].row = job[m].row
    BY <1>1, <1>3 DEF Job
  <1>5. restocked'[r] = Resellable(job'[m].row, r)
    BY <1>1, <1>2, <1>3, <1>4 DEF JobMoney
  <1>6. RowMoney(r)'
    <2>1. Resolved(r)'
      BY <1>2, <1>4 DEF Resolved
    <2>. QED
      BY <1>2, <1>3, <2>1 DEF RowMoney, Given
  <1>7. JobMoney(m)'
    BY <1>1, <1>2, <1>3, <1>4, <1>5 DEF JobMoney, Settled, Given
  <1>8. /\ \A q \in Requests \ {r} : RowMoney(q)'
        /\ \A n \in Managers \ {m} : JobMoney(n)'
    <2>1. ActsOn(m, r)
      BY <1>2, <1>3, <1>4 DEF ActsOn
    <2>. QED
      BY <1>2, <2>1, RestStep
  <1>9. Released \subseteq Released'
    <2>1. \A n \in Managers : /\ job'[n].request = job[n].request
                              /\ job[n].pc \in {"restock", "complete"} =>
                                   job'[n].pc \in {"restock", "complete"}
      BY <1>3, <1>4
    <2>. QED
      BY <1>3, <2>1 DEF Released
  <1>. QED
    BY <1>3, <1>6, <1>7, <1>8, <1>9, CoveredStays DEF Money

LEMMA CompleteStep ==
  ASSUME Types, Work, Money, NEW m \in Managers, Complete(m)
  PROVE  Money'
  <1>. USE DEF At, moneyVars
  <1>. SUFFICES ASSUME NEW r, NEW a, r = job[m].request, a = job[m].amount
                PROVE  Money'
    OBVIOUS
  <1>1. job[m].pc = "complete" /\ job[m].pc \in Resolving /\ job \in [Managers -> Job]
    BY DEF Complete, Resolving, Types
  <1>2. /\ r \in Requests /\ r # None /\ request[r] \in Row /\ job[m].row = request[r]
        /\ \A n \in Managers \ {m} : job[n].request # r
        /\ RowMoney(r) /\ JobMoney(m)
    BY <1>1, ResolvingFacts
  <1>3. /\ UNCHANGED <<creditBack, refunded, voucher, restocked>>
        /\ request'[r] = [request[r] EXCEPT !.status = "completed", !.amount = a]
        /\ \A q \in Requests \ {r} : request'[q] = request[q]
        /\ \A n \in Managers \ {m} : job'[n] = job[n]
        /\ job'[m] = Idle
    BY <1>1, <1>2 DEF Complete, End, Types
  <1>4. /\ request'[r].status = "completed" /\ request'[r].amount = a
        /\ request'[r].condition = request[r].condition
    BY <1>2, <1>3 DEF Row
  <1>5. JobMoney(m)'
    BY <1>3, PcSets DEF JobMoney
  <1>6. RowMoney(r)'
    <2>1. Settled(r, a) /\ restocked[r] = Resellable(request[r], r)
      BY <1>1, <1>2 DEF JobMoney
    <2>. QED
      BY <1>2, <1>3, <1>4, <2>1 DEF RowMoney, Settled, Given, Resellable
  <1>7. job'[m].request = None
    BY <1>3 DEF Idle
  <1>8. /\ \A q \in Requests \ {r} : RowMoney(q)'
        /\ \A n \in Managers \ {m} : JobMoney(n)'
    <2>1. ActsOn(m, r)
      BY <1>2, <1>3, <1>7 DEF ActsOn
    <2>. QED
      BY <1>2, <2>1, RestStep
  <1>9. Released \subseteq Released'
    <2>1. ASSUME NEW q \in Released PROVE q \in Released'
      <3>1. CASE q = r
        BY <1>4, <2>1, <3>1 DEF Released
      <3>2. CASE q # r
        BY <1>2, <1>3, <2>1, <3>2 DEF Released
      <3>. QED
        BY <3>1, <3>2
    <2>. QED
      BY <2>1
  <1>. QED
    BY <1>3, <1>5, <1>6, <1>8, <1>9, CoveredStays DEF Money

LEMMA InterruptStep ==
  ASSUME Types, Work, Money, InterruptedExchanges, NEW m \in Managers, Interrupt(m)
  PROVE  Money'
  <1>. USE DEF moneyVars
  <1>. SUFFICES ASSUME NEW r, NEW a, r = job[m].request, a = job[m].amount
                PROVE  Money'
    OBVIOUS
  <1>1. /\ job[m].pc \in {"restock", "complete"} /\ job[m].pc \in Resolving
        /\ job \in [Managers -> Job] /\ r \in Interrupted
    BY DEF Interrupt, Resolving, Types
  <1>2. /\ r \in Requests /\ r # None /\ request[r].status \in {"received", "inspecting"}
        /\ a > 0 /\ \A n \in Managers \ {m} : job[n].request # r
        /\ RowMoney(r) /\ JobMoney(m) /\ a \in Nat
        /\ job[m].resolution \in {"credit", "refund"}
        /\ job[m].resolution = "refund" => Kind[r] # "exchange"
    BY <1>1, ResolvingFacts
  <1>3. Kind[r] = "exchange"
    BY <1>1, <1>2 DEF InterruptedExchanges
  <1>4. refunded[r] = 0 /\ voucher[r] = a
    BY <1>1, <1>2, <1>3 DEF JobMoney
  <1>5. /\ UNCHANGED <<request, creditBack, refunded, voucher, restocked>>
        /\ \A n \in Managers \ {m} : job'[n] = job[n]
        /\ job'[m] = Idle
    BY <1>1 DEF Interrupt, End, Types
  <1>6. RowMoney(r)'
    BY <1>1, <1>2, <1>4, <1>5 DEF RowMoney, Given, Begun
  <1>7. JobMoney(m)' /\ job'[m].request = None
    BY <1>5, PcSets DEF JobMoney, Idle
  <1>8. /\ \A q \in Requests \ {r} : RowMoney(q)'
        /\ \A n \in Managers \ {m} : JobMoney(n)'
    <2>1. ActsOn(m, r)
      BY <1>2, <1>5, <1>7 DEF ActsOn
    <2>. QED
      BY <1>2, <2>1, RestStep
  <1>9. Released \subseteq Released'
    BY <1>2, <1>3, <1>5 DEF Released
  <1>. QED
    BY <1>5, <1>6, <1>7, <1>8, <1>9, CoveredStays DEF Money

-----------------------------------------------------------------------------
(* The properties of the money *)

\* The steps that leave the money and the resolutions as they are.
Quiet ==
    \/ UNCHANGED vars
    \/ DaysPass
    \/ \E r \in Requests : ReadClaims(r) \/ Create(r) \/ Cancel(r) \/ Update(r)
    \/ \E m \in Managers :
        \/ \E r \in Requests : IssueReverseShipment(m, r)
        \/ CreateReverseCart(m) \/ PurchaseReverseShipment(m) \/ GenerateReverseShipment(m)
    \/ \E l \in Labels :
        \/ CustomerPosts(l)
        \/ \E event \in ParcelStates : ApplyReverseWebhookEvent(l, event)

LEMMA QuietOnes ==
  ASSUME Types, Work, Quiet
  PROVE  /\ UNCHANGED <<refunded, voucher, restocked, creditBack>>
         /\ \A m \in Managers :
              \/ job'[m] = job[m]
              \/ /\ job[m].pc \notin Resolving /\ job'[m].pc \notin Resolving
                 /\ job[m].resolution = "none" /\ job'[m].resolution = "none"
  <1>. USE DEF At, moneyVars, carrierVars
  <1>0. job \in [Managers -> Job]
    BY DEF Types
  <1>1. CASE job' = job /\ UNCHANGED moneyVars /\ restocked' = restocked
    BY <1>1
  <1>2. ASSUME NEW m \in Managers, UNCHANGED moneyVars, restocked' = restocked,
               job[m].pc \in Issuing \cup {"idle"},
               \/ End(m)
               \/ job'[m].pc \in Issuing /\ job'[m].resolution = job[m].resolution,
               \A n \in Managers \ {m} : job'[n] = job[n]
        PROVE  /\ UNCHANGED <<refunded, voucher, restocked, creditBack>>
               /\ \A n \in Managers :
                    \/ job'[n] = job[n]
                    \/ /\ job[n].pc \notin Resolving /\ job'[n].pc \notin Resolving
                       /\ job[n].resolution = "none" /\ job'[n].resolution = "none"
    <2>1. job[m].resolution = "none"
      BY <1>2 DEF Work, JobOk, Issuing
    <2>2. job'[m].pc \notin Resolving /\ job'[m].resolution = "none"
      BY <1>0, <1>2, <2>1 DEF End, Idle, Issuing, Resolving
    <2>. QED
      BY <1>2, <2>1, <2>2 DEF Issuing, Resolving
  <1>3. CASE DaysPass \/ UNCHANGED vars
    BY <1>1, <1>3 DEF DaysPass, vars
  <1>4. CASE \E r \in Requests : ReadClaims(r) \/ Create(r) \/ Cancel(r) \/ Update(r)
    BY <1>1, <1>4 DEF ReadClaims, Create, Cancel, Update
  <1>5. CASE \E l \in Labels :
               \/ CustomerPosts(l)
               \/ \E event \in ParcelStates : ApplyReverseWebhookEvent(l, event)
    BY <1>1, <1>5 DEF CustomerPosts, ApplyReverseWebhookEvent
  <1>6. ASSUME NEW m \in Managers, NEW r \in Requests, IssueReverseShipment(m, r)
        PROVE  /\ UNCHANGED <<refunded, voucher, restocked, creditBack>>
               /\ \A n \in Managers :
                    \/ job'[n] = job[n]
                    \/ /\ job[n].pc \notin Resolving /\ job'[n].pc \notin Resolving
                       /\ job[n].resolution = "none" /\ job'[n].resolution = "none"
    <2>1. /\ job[m].pc = "idle" /\ job'[m].pc \in Issuing /\ job'[m].resolution = "none"
          /\ \A n \in Managers \ {m} : job'[n] = job[n]
          /\ UNCHANGED moneyVars /\ restocked' = restocked
      BY <1>0, <1>6 DEF IssueReverseShipment, Idle, Issuing
    <2>2. job[m].resolution = "none"
      BY <2>1 DEF Work, JobOk
    <2>. QED
      BY <1>2, <2>1, <2>2
  <1>7. ASSUME NEW m \in Managers,
               \/ CreateReverseCart(m) \/ PurchaseReverseShipment(m)
               \/ GenerateReverseShipment(m)
        PROVE  /\ UNCHANGED <<refunded, voucher, restocked, creditBack>>
               /\ \A n \in Managers :
                    \/ job'[n] = job[n]
                    \/ /\ job[n].pc \notin Resolving /\ job'[n].pc \notin Resolving
                       /\ job[n].resolution = "none" /\ job'[n].resolution = "none"
    <2>1. ASSUME NEW row, NEW pc \in Issuing, SaveRow(m, row, pc)
          PROVE  /\ job'[m].pc \in Issuing /\ job'[m].resolution = job[m].resolution
                 /\ \A n \in Managers \ {m} : job'[n] = job[n]
      BY <1>0, <2>1 DEF SaveRow, Job
    <2>2. ASSUME End(m) PROVE \A n \in Managers \ {m} : job'[n] = job[n]
      BY <1>0, <2>2 DEF End
    <2>3. SaveFailed(m) => End(m)
      BY DEF SaveFailed
    <2>4. /\ UNCHANGED moneyVars /\ restocked' = restocked /\ job[m].pc \in Issuing
          /\ \/ End(m)
             \/ \E row : SaveRow(m, row, "purchase")
             \/ \E row : SaveRow(m, row, "generate")
      <3>1. CASE CreateReverseCart(m)
        <4>1. /\ UNCHANGED moneyVars /\ restocked' = restocked /\ job[m].pc = "cart"
              /\ \E l \in Labels :
                    \/ SaveRow(m, [job[m].row EXCEPT !.label = l, !.reverse = "cart",
                                                    !.posting = FALSE], "purchase")
                    \/ SaveFailed(m)
          BY <3>1 DEF CreateReverseCart
        <4>. HIDE DEF moneyVars
        <4>. QED
          BY <2>3, <4>1 DEF Issuing
      <3>2. CASE PurchaseReverseShipment(m)
        <4>1. /\ UNCHANGED moneyVars /\ restocked' = restocked /\ job[m].pc = "purchase"
              /\ \/ SaveRow(m, [job[m].row EXCEPT !.reverse = "purchased"], "generate")
                 \/ SaveFailed(m)
          BY <3>2 DEF PurchaseReverseShipment
        <4>. HIDE DEF moneyVars
        <4>. QED
          BY <2>3, <4>1 DEF Issuing
      <3>3. CASE GenerateReverseShipment(m)
        BY <2>3, <3>3 DEF GenerateReverseShipment, Issuing
      <3>. QED
        BY <1>7, <3>1, <3>2, <3>3
    <2>. QED
      BY <1>2, <2>1, <2>2, <2>4 DEF Issuing
  <1>. QED
    BY <1>3, <1>4, <1>5, <1>6, <1>7 DEF Quiet

LEMMA MoneyStep ==
  ASSUME InterruptedExchanges, CalmInv, CalmInv', Money, [CalmNext]_vars
  PROVE  Money'
  <1>1. Types /\ Work /\ Work' /\ Claims
    BY DEF CalmInv
  <1>2. ASSUME Quiet, Next \/ UNCHANGED vars, EventsInTime PROVE Money'
    <2>1. \A m \in Managers : ~Complete(m)
      <3>. SUFFICES ASSUME NEW m \in Managers, Complete(m) PROVE FALSE
        OBVIOUS
      <3>1. job[m].pc = "complete" /\ job'[m].pc = "idle"
        BY <1>1 DEF Complete, At, End, Idle, Types
      <3>. QED
        BY <1>1, <1>2, <3>1, QuietOnes DEF Resolving
    <2>. QED
      BY <1>1, <1>2, <2>1, QuietOnes, QuietStep
  <1>3. CASE UNCHANGED vars
    <2>1. EventsInTime
      BY <1>3 DEF EventsInTime, vars
    <2>. QED
      BY <1>2, <1>3, <2>1 DEF Quiet
  <1>4. ASSUME NEW m \in Managers, NEW r \in Requests, Resolve(m, r) PROVE Money'
    BY <1>1, <1>4, ResolveStep
  <1>5. ASSUME NEW m \in Managers, RefundOrderAmount(m) PROVE Money'
    BY <1>1, <1>5, RefundStep
  <1>6. ASSUME NEW m \in Managers, ReleaseCredit(m) PROVE Money'
    BY <1>1, <1>6, ReleaseStep
  <1>7. ASSUME NEW m \in Managers, SaveVoucher(m) PROVE Money'
    BY <1>1, <1>7, SaveVoucherStep
  <1>8. ASSUME NEW m \in Managers, RestockReturn(m) PROVE Money'
    BY <1>1, <1>8, RestockStep
  <1>9. ASSUME NEW m \in Managers, Complete(m) PROVE Money'
    BY <1>1, <1>9, CompleteStep
  <1>10. ASSUME NEW m \in Managers, Interrupt(m) PROVE Money'
    BY <1>1, <1>10, InterruptStep
  <1>11. CASE CalmNext
    <2>1. Next /\ EventsInTime
      BY <1>11 DEF CalmNext
    <2>. QED
      BY <1>2, <1>4, <1>5, <1>6, <1>7, <1>8, <1>9, <1>10, <2>1 DEF Next, Quiet
  <1>. QED
    BY <1>3, <1>11

LEMMA MoneyHolds ==
  ASSUME InterruptedExchanges
  PROVE  CalmSpec => [](CalmInv /\ Money)
  <1>1. CalmInv /\ Money /\ [CalmNext]_vars => (CalmInv /\ Money)'
    BY CalmStep, MoneyStep
  <1>2. Init => CalmInv /\ Money
    BY CalmStarts, MoneyStarts
  <1>. QED
    BY <1>1, <1>2, PTL DEF CalmSpec, CalmNext

\* If only exchanges are ever interrupted, and no stale copy is saved, a completed request
\* paid back what it records but for a cent for each unit of the order, once, with its
\* pieces on the shelf, and any other paid nothing back.
THEOREM PaidBackOnceHolds ==
  ASSUME InterruptedExchanges
  PROVE  CalmSpec => []PaidBackOnce
  <1>1. ASSUME CalmInv, Money PROVE PaidBackOnce
    <2>. SUFFICES ASSUME NEW r \in Requests
                  PROVE  LET given == refunded[r] + voucher[r]
                         IN  /\ request[r].status = "completed" =>
                                  /\ given <= request[r].amount
                                  /\ request[r].amount - given <= Total(Sold, Lines)
                                  /\ restocked[r] = Resellable(request[r], r)
                             /\ request[r].status # "completed" /\ ~Resolved(r)
                                /\ r \notin Interrupted => given = 0 /\ restocked[r] = {}
                             /\ given <= CalculatedAmount(r)
      BY DEF PaidBackOnce, Resolved
    <2>1. RowMoney(r)
      BY <1>1 DEF Money
    <2>. QED
      BY <2>1 DEF RowMoney, Given, Settled, Begun, Untouched
  <1>. QED
    BY <1>1, MoneyHolds, PTL

\* Under the same schedule all the requests that live give back no more than the order
\* cost, but for half a cent for each unit of the order.
THEOREM RefundsFitTheOrderHolds ==
  ASSUME InterruptedExchanges
  PROVE  CalmSpec => []RefundsFitTheOrder
  <1>1. ASSUME CalmInv, Money PROVE RefundsFitTheOrder
    <2>. DEFINE f == [r \in Requests |-> refunded[r] + voucher[r]]
                all == {r \in Requests : request[r].status \notin Dead}
                absent == {r \in Requests : request[r].status = "absent"}
    <2>1. \A r \in Requests : /\ f[r] \in Nat /\ Worth[r] \in Nat /\ f[r] <= Worth[r]
                              /\ request[r].status = "absent" => f[r] = 0
      BY <1>1, WorthFacts DEF Money, RowMoney, Given, Untouched, CalmInv, Types
    <2>2. /\ all = Live \cup absent /\ Live \cap absent = {}
          /\ IsFiniteSet(absent) /\ IsFiniteSet(Live)
          /\ Live \in SUBSET Requests /\ absent \in SUBSET Requests
      <3>1. all = Live \cup absent /\ Live \cap absent = {} /\ absent \in SUBSET Requests
        BY DEF Live, Dead
      <3>. QED
        BY <3>1, LiveFacts, OrderFacts, FS_Subset
    <2>3. \A r \in absent : request[r].status = "absent"
      OBVIOUS
    <2>. HIDE DEF f, all, absent
    <2>4. Total(f, absent) = 0
      BY <2>1, <2>2, <2>3, TotalZero
    <2>5. Total(f, all) = Total(f, Live) + Total(f, absent)
      BY <2>1, <2>2, TotalSplit
    <2>6. Total(f, Live) <= Total(Worth, Live) /\ Total(f, Live) \in Nat
      BY <2>1, <2>2, TotalAtMost, TotalNat
    <2>7. Total(Worth, Live) \in Nat /\ 2 * Total(Worth, Live) <= 2 * Whole + Total(Sold, Lines)
      BY <1>1, LiveWorth DEF CalmInv, Claims
    <2>8. 2 * (Total(f, all) - OrderTotal - OrderCredit) <= Total(Sold, Lines)
      BY <2>4, <2>5, <2>6, <2>7, OrderFacts, UnitsBought DEF Whole
    <2>. QED
      BY <2>8 DEF RefundsFitTheOrder, RoundingOf, f, all
  <1>. QED
    BY <1>1, MoneyHolds, PTL

=============================================================================
