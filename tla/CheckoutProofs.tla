---------------------------- MODULE CheckoutProofs ----------------------------
(***************************************************************************)
(* What holds of the money of the orders, for every number of orders,      *)
(* credits, coupons and carts, and of the lock they take on a coupon.      *)
(*                                                                         *)
(* Pricing: the discount over the sorted units is the one by rank, since   *)
(* two ways to sort have the same price at each place and the units by     *)
(* rank are one of them; and the price of a cart is an amount of money.    *)
(* Credits: the shares of an amount fit what the credits have, so a        *)
(* reservation or a release moves exactly what it says.  Checkout: MoneyInv *)
(* says at every step of a request where the credit of its order is        *)
(* recorded, CouponInv that one request at a time is between the second    *)
(* look at a coupon and the insert.  AdvisoryLock, the lock itself, by     *)
(* itself: whoever runs fn() is the only owner of its key.                 *)
(***************************************************************************)
EXTENDS Checkout, AdvisoryLock, SumsProofs

-----------------------------------------------------------------------------
(* The arithmetic of the prices *)

LEMMA MinOfTwo ==
  ASSUME NEW a \in Int, NEW b \in Int
  PROVE  Min({a, b}) = IF a <= b THEN a ELSE b
  <1>1. CASE a <= b
    <2>1. a \in {a, b} /\ \A y \in {a, b} : a <= y
      BY <1>1
    <2>2. \A x \in {a, b} : (\A y \in {a, b} : x <= y) => x = a
      BY <1>1
    <2>. QED
      BY <1>1, <2>1, <2>2, SMT DEF Min
  <1>2. CASE a > b
    <2>1. b \in {a, b} /\ \A y \in {a, b} : b <= y
      BY <1>2
    <2>2. \A x \in {a, b} : (\A y \in {a, b} : x <= y) => x = b
      BY <1>2
    <2>. QED
      BY <1>2, <2>1, <2>2, SMT DEF Min
  <1>. QED
    BY <1>1, <1>2

LEMMA MaxOfTwo ==
  ASSUME NEW a \in Int, NEW b \in Int
  PROVE  Max({a, b}) = IF a >= b THEN a ELSE b
  <1>1. CASE a >= b
    <2>1. a \in {a, b} /\ \A y \in {a, b} : a >= y
      BY <1>1
    <2>2. \A x \in {a, b} : (\A y \in {a, b} : x >= y) => x = a
      BY <1>1
    <2>. QED
      BY <1>1, <2>1, <2>2, SMT DEF Max
  <1>2. CASE b > a
    <2>1. b \in {a, b} /\ \A y \in {a, b} : b >= y
      BY <1>2
    <2>2. \A x \in {a, b} : (\A y \in {a, b} : x >= y) => x = b
      BY <1>2
    <2>. QED
      BY <1>2, <2>1, <2>2, SMT DEF Max
  <1>. QED
    BY <1>1, <1>2

LEMMA ClampIsBetween ==
  ASSUME NEW x \in Int, NEW low \in Int, NEW high \in Int, low <= high
  PROVE  Clamp(x, low, high) \in low .. high
  <1>. DEFINE m == Max({low, x})
  <1>1. m \in Int /\ m >= low
    BY MaxOfTwo
  <1>. HIDE DEF m
  <1>2. Min({high, m}) \in low .. high
    BY <1>1, MinOfTwo
  <1>. QED
    BY <1>2 DEF Clamp, m

LEMMA ProductIsInt ==
  ASSUME NEW a \in Int, NEW b \in Int
  PROVE  a * b \in Int
  OBVIOUS

LEMMA ProductIsNat ==
  ASSUME NEW a \in Nat, NEW b \in Nat
  PROVE  a * b \in Nat
  OBVIOUS

LEMMA RoundIsInt ==
  ASSUME NEW n \in Int, NEW d \in {100, 1000000}
  PROVE  Round(n, d) \in Int /\ (n \in Nat => Round(n, d) \in Nat)
  <1>1. CASE d = 100
    BY <1>1 DEF Round
  <1>2. CASE d = 1000000
    BY <1>2 DEF Round
  <1>. QED
    BY <1>1, <1>2

LEMMA LinePrices ==
  ASSUME NEW line, IsLine(line), NEW rules
  PROVE  /\ Quantity(line) \in 1 .. 10
         /\ ProductPrice(line, rules) \in Nat
         /\ LineTotal(line, rules) \in Nat
  <1>1. Quantity(line) \in 1 .. 10
    <2>1. line.qty \in Int /\ 1 \in Int /\ 10 \in Int /\ 1 <= 10
      BY DEF IsLine
    <2>2. Clamp(line.qty, 1, 10) \in 1 .. 10
      BY ONLY <2>1, ClampIsBetween
    <2>. QED
      BY <2>2 DEF Quantity
  <1>2. ProductPrice(line, rules) \in Nat
    <2>. DEFINE pct == IF rules.individual THEN Clamp(line.promo, 0, 90) ELSE 0
    <2>1. Clamp(line.promo, 0, 90) \in 0 .. 90
      <3>1. line.promo \in Int /\ 0 \in Int /\ 90 \in Int /\ 0 <= 90
        BY DEF IsLine
      <3>. QED
        BY ONLY <3>1, ClampIsBetween
    <2>2. 100 - pct \in Nat
      BY <2>1
    <2>. HIDE DEF pct
    <2>3. line.price * (100 - pct) \in Nat
      BY <2>2, ProductIsNat DEF IsLine
    <2>. QED
      BY <2>3, RoundIsInt DEF ProductPrice, pct
  <1>3. LineTotal(line, rules) \in Nat
    BY <1>1, <1>2, ProductIsNat DEF LineTotal
  <1>. QED
    BY <1>1, <1>2, <1>3

LEMMA PairsHaveTwo ==
  ASSUME NEW S, IsFiniteSet(S), Cardinality(S) = 2
  PROVE  \E x, y : S = {x, y}
  <1>1. PICK x : x \in S
    BY FS_EmptySet
  <1>2. IsFiniteSet(S \ {x}) /\ Cardinality(S \ {x}) = 1
    BY <1>1, FS_RemoveElement
  <1>3. PICK y : S \ {x} = {y}
    BY <1>2, FS_Singleton
  <1>4. S = {x, y}
    BY <1>1, <1>3
  <1>. QED
    BY <1>4

LEMMA BundleTotalIsInt ==
  ASSUME NEW lines, IsList(lines), NEW rules, NEW b
  PROVE  BundleTotal(lines, rules, b) \in Int
  <1>. DEFINE grouped == {i \in DOMAIN lines : lines[i].bundle = b}
              price == [i \in grouped |-> ProductPrice(lines[i], rules)]
              quantities == {Quantity(lines[i]) : i \in grouped}
  <1>1. grouped \subseteq DOMAIN lines /\ IsFiniteSet(DOMAIN lines)
    BY FS_Interval DEF IsList
  <1>2. IsFiniteSet(grouped)
    BY <1>1, FS_Subset
  <1>3. \A i \in grouped : Quantity(lines[i]) \in Int /\ ProductPrice(lines[i], rules) \in Int
    BY LinePrices DEF IsList
  <1>4. Total(price, grouped) \in Int
    <2>1. \A i \in grouped : price[i] \in Int
      BY <1>3
    <2>. HIDE DEF price, grouped
    <2>. QED
      BY <1>2, <2>1, TotalInt
  <1>5. ASSUME Cardinality(grouped) = 2
        PROVE  Min(quantities) \in Int
    <2>. HIDE DEF grouped
    <2>1. PICK i, j : grouped = {i, j}
      BY <1>2, <1>5, PairsHaveTwo
    <2>2. quantities = {Quantity(lines[i]), Quantity(lines[j])}
      BY <2>1
    <2>. QED
      BY <1>3, <2>1, <2>2, MinOfTwo
  <1>. HIDE DEF price, quantities
  <1>6. Cardinality(grouped) = 2 => Total(price, grouped) * Min(quantities) \in Int
    BY <1>4, <1>5, ProductIsInt
  <1>. QED
    BY <1>6 DEF BundleTotal, price, quantities

LEMMA BundlesAreFinite ==
  ASSUME NEW lines, IsList(lines)
  PROVE  IsFiniteSet(Bundles(lines))
  <1>. DEFINE D == DOMAIN lines
              names(T) == {lines[i].bundle : i \in T}
              G == {T \in SUBSET D : IsFiniteSet(names(T))}
  <1>1. IsFiniteSet(D)
    BY FS_Interval DEF IsList
  <1>2. {} \in G
    BY FS_EmptySet
  <1>3. ASSUME NEW T \in G, NEW x \in D \ T PROVE T \cup {x} \in G
    <2>1. names(T \cup {x}) = names(T) \cup {lines[x].bundle}
      OBVIOUS
    <2>2. IsFiniteSet(names(T)) /\ T \cup {x} \in SUBSET D
      OBVIOUS
    <2>. HIDE DEF names, D
    <2>3. IsFiniteSet(names(T) \cup {lines[x].bundle})
      BY <2>2, FS_AddElement
    <2>4. IsFiniteSet(names(T \cup {x}))
      BY <2>1, <2>3
    <2>. QED
      BY <2>2, <2>4
  <1>. HIDE DEF D
  <1>4. D \in G
    BY <1>1, <1>2, <1>3, SubsetInduction
  <1>5. IsFiniteSet(names(D))
    BY <1>4
  <1>. QED
    BY <1>5, FS_Difference DEF Bundles, D

-----------------------------------------------------------------------------
(* Sorting *)

\* A sequence of the elements of a finite set has every element once.
LEMMA Enumerated ==
  ASSUME NEW S, IsFiniteSet(S), NEW seq \in SetToSeqs(S)
  PROVE  /\ Cardinality(S) \in Nat
         /\ DOMAIN seq = 1 .. Cardinality(S)
         /\ \A i \in DOMAIN seq : seq[i] \in S
         /\ \A i, j \in DOMAIN seq : seq[i] = seq[j] => i = j
         /\ \A x \in S : \E i \in DOMAIN seq : seq[i] = x
  <1>. DEFINE n == Cardinality(S)
  <1>1. n \in Nat
    BY FS_CardinalityType
  <1>2. seq \in [1 .. n -> S] /\ \A i, j \in 1 .. n : i # j => seq[i] # seq[j]
    BY DEF SetToSeqs
  <1>3. seq \in Injection(1 .. n, S)
    BY <1>2 DEF Injection, IsInjective
  <1>4. Cardinality(1 .. n) = n
    BY <1>1, FS_Interval
  <1>5. seq \in Surjection(1 .. n, S)
    BY <1>3, <1>4, FS_Injection
  <1>. QED
    BY <1>1, <1>2, <1>5 DEF Surjection

\* The first k elements are k elements.
LEMMA FirstOnes ==
  ASSUME NEW S, IsFiniteSet(S), NEW seq \in SetToSeqs(S), NEW k \in Nat, k <= Cardinality(S)
  PROVE  LET first == {seq[i] : i \in 1 .. k}
         IN  first \subseteq S /\ IsFiniteSet(first) /\ Cardinality(first) = k
  <1>. DEFINE first == {seq[i] : i \in 1 .. k}
              s == [i \in 1 .. k |-> seq[i]]
  <1>1. /\ 1 .. k \subseteq DOMAIN seq
        /\ \A i \in DOMAIN seq : seq[i] \in S
        /\ \A i, j \in DOMAIN seq : seq[i] = seq[j] => i = j
    BY Enumerated
  <1>2. s \in Injection(1 .. k, first) /\ s \in Surjection(1 .. k, first)
    BY <1>1 DEF Injection, Surjection, IsInjective
  <1>3. IsFiniteSet(1 .. k) /\ Cardinality(1 .. k) = k
    BY FS_Interval
  <1>. HIDE DEF first, s
  <1>4. IsFiniteSet(first) /\ Cardinality(first) = k
    BY <1>2, <1>3, FS_Surjection
  <1>. QED
    BY <1>1, <1>4 DEF first

Sorted(price, seq) ==
    \A i, j \in DOMAIN seq : i < j => price[seq[i]] >= price[seq[j]]

Above(price, p) == {x \in DOMAIN price : price[x] > p}
Reach(price, p) == {x \in DOMAIN price : price[x] >= p}

\* Fewer than k elements are dearer than the k-th of a sorted sequence, and k or more
\* are as dear.
LEMMA SortedCounts ==
  ASSUME NEW S, IsFiniteSet(S), NEW price \in [S -> Nat], NEW seq \in SetToSeqs(S),
         Sorted(price, seq), NEW k \in DOMAIN seq
  PROVE  /\ Cardinality(Above(price, price[seq[k]])) < k
         /\ k <= Cardinality(Reach(price, price[seq[k]]))
  <1>. DEFINE above == Above(price, price[seq[k]])
              reach == Reach(price, price[seq[k]])
              first(m) == {seq[i] : i \in 1 .. m}
  <1>1. /\ Cardinality(S) \in Nat /\ k \in 1 .. Cardinality(S)
        /\ DOMAIN seq = 1 .. Cardinality(S)
        /\ \A i \in DOMAIN seq : seq[i] \in S
        /\ \A x \in S : \E i \in DOMAIN seq : seq[i] = x
    BY Enumerated
  <1>2. above \subseteq first(k - 1)
    <2>. SUFFICES ASSUME NEW x \in S, price[x] > price[seq[k]]
                  PROVE  \E i \in 1 .. k - 1 : seq[i] = x
      BY DEF Above
    <2>1. PICK i \in DOMAIN seq : seq[i] = x
      BY <1>1
    <2>2. ~(k < i) /\ i # k
      BY <1>1, <2>1 DEF Sorted
    <2>. QED
      BY <1>1, <2>1, <2>2
  <1>3. first(k) \subseteq reach
    <2>. SUFFICES ASSUME NEW i \in 1 .. k PROVE seq[i] \in S /\ price[seq[i]] >= price[seq[k]]
      BY DEF Reach
    <2>1. i \in DOMAIN seq /\ (i < k \/ i = k)
      BY <1>1
    <2>. QED
      BY <1>1, <2>1 DEF Sorted
  <1>4. /\ IsFiniteSet(first(k - 1)) /\ Cardinality(first(k - 1)) = k - 1
        /\ IsFiniteSet(first(k)) /\ Cardinality(first(k)) = k
    <2>1. \A m \in Nat : m <= Cardinality(S) => IsFiniteSet(first(m)) /\ Cardinality(first(m)) = m
      BY FirstOnes
    <2>2. k - 1 \in Nat /\ k - 1 <= Cardinality(S) /\ k \in Nat /\ k <= Cardinality(S)
      BY <1>1
    <2>. HIDE DEF first
    <2>. QED
      BY <2>1, <2>2
  <1>5. above \subseteq S /\ reach \subseteq S
    BY DEF Above, Reach
  <1>. HIDE DEF above, reach, first
  <1>6. /\ Cardinality(above) <= k - 1 /\ Cardinality(above) \in Nat
        /\ k <= Cardinality(reach)
    BY <1>2, <1>3, <1>4, <1>5, FS_Subset, FS_CardinalityType
  <1>. QED
    BY <1>1, <1>6 DEF above, reach

\* Whatever order a sort leaves equal prices in, each place has the same price.
LEMMA SortsAgree ==
  ASSUME NEW S, IsFiniteSet(S), NEW price \in [S -> Nat],
         NEW s \in SetToSeqs(S), Sorted(price, s), NEW t \in SetToSeqs(S), Sorted(price, t),
         NEW k \in 1 .. Cardinality(S)
  PROVE  price[s[k]] = price[t[k]]
  <1>1. ASSUME NEW p \in Nat, NEW q \in Nat, p > q,
               k <= Cardinality(Reach(price, p)), Cardinality(Above(price, q)) < k
        PROVE  FALSE
    <2>1. Reach(price, p) \subseteq Above(price, q) /\ Above(price, q) \subseteq S
      BY <1>1 DEF Reach, Above
    <2>2. /\ Cardinality(Reach(price, p)) <= Cardinality(Above(price, q))
          /\ Cardinality(Reach(price, p)) \in Nat /\ Cardinality(Above(price, q)) \in Nat
      BY <2>1, FS_Subset, FS_CardinalityType
    <2>. QED
      BY <1>1, <2>2
  <1>2. /\ k \in DOMAIN s /\ k \in DOMAIN t
        /\ price[s[k]] \in Nat /\ price[t[k]] \in Nat
    BY Enumerated
  <1>3. /\ Cardinality(Above(price, price[s[k]])) < k /\ k <= Cardinality(Reach(price, price[s[k]]))
        /\ Cardinality(Above(price, price[t[k]])) < k /\ k <= Cardinality(Reach(price, price[t[k]]))
    BY <1>2, SortedCounts
  <1>4. ~(price[s[k]] > price[t[k]]) /\ ~(price[t[k]] > price[s[k]])
    BY <1>1, <1>2, <1>3
  <1>. QED
    BY <1>2, <1>4

\* A sum does not depend on the names of its terms.
LEMMA TotalRenamed ==
  ASSUME NEW S, IsFiniteSet(S), NEW f, NEW g, NEW r,
         \A x \in S : f[x] \in Int /\ f[x] = g[r[x]],
         \A x, y \in S : r[x] = r[y] => x = y
  PROVE  Total(f, S) = Total(g, {r[x] : x \in S})
  <1>. DEFINE names(T) == {r[x] : x \in T}
              G == {T \in SUBSET S : IsFiniteSet(names(T)) /\ Total(f, T) = Total(g, names(T))}
  <1>1. {} \in G
    <2>1. names({}) = {}
      OBVIOUS
    <2>. QED
      BY <2>1, TotalEmpty, FS_EmptySet
  <1>2. ASSUME NEW T \in G, NEW x \in S \ T PROVE T \cup {x} \in G
    <2>1. /\ names(T \cup {x}) = names(T) \cup {r[x]} /\ r[x] \notin names(T)
          /\ \A z \in names(T) : g[z] \in Int
          /\ g[r[x]] = f[x] /\ f[x] \in Int /\ \A z \in T : f[z] \in Int
      OBVIOUS
    <2>2. T \in SUBSET S /\ IsFiniteSet(names(T)) /\ Total(f, T) = Total(g, names(T))
      OBVIOUS
    <2>3. IsFiniteSet(T)
      BY <2>2, FS_Subset
    <2>. HIDE DEF names, G
    <2>4. IsFiniteSet(names(T) \cup {r[x]})
      BY <2>2, FS_AddElement
    <2>5. Total(g, names(T) \cup {r[x]}) = g[r[x]] + Total(g, names(T))
      BY <2>1, <2>2, TotalInsert
    <2>6. Total(f, T \cup {x}) = f[x] + Total(f, T)
      BY <2>1, <2>3, TotalInsert
    <2>7. T \cup {x} \in SUBSET S
      BY <2>2
    <2>8. IsFiniteSet(names(T \cup {x})) /\ Total(f, T \cup {x}) = Total(g, names(T \cup {x}))
      BY <2>1, <2>2, <2>4, <2>5, <2>6
    <2>. QED
      BY <2>7, <2>8 DEF G
  <1>3. S \in G
    BY <1>1, <1>2, SubsetInduction
  <1>. QED
    BY <1>3

-----------------------------------------------------------------------------
(* The progressive discount *)

LEMMA UnitsOfACart ==
  ASSUME NEW lines, IsList(lines), NEW rules
  PROVE  /\ IsFiniteSet(EligibleUnits(lines, rules))
         /\ EligibleUnits(lines, rules) \subseteq Nat \X Nat
         /\ UnitPrices(lines, rules) \in [EligibleUnits(lines, rules) -> Nat]
  <1>1. /\ IsFiniteSet(DOMAIN lines) /\ DOMAIN lines \subseteq Nat
        /\ IsFiniteSet(1 .. 10) /\ 1 .. 10 \subseteq Nat
    <2>1. DOMAIN lines = 1 .. Len(lines) /\ Len(lines) \in Nat
      BY DEF IsList
    <2>2. \A m \in Nat : IsFiniteSet(1 .. m)
      BY FS_Interval
    <2>3. IsFiniteSet(1 .. Len(lines)) /\ IsFiniteSet(1 .. 10)
      BY <2>1, <2>2
    <2>. QED
      BY <2>1, <2>2, <2>3
  <1>2. IsFiniteSet((DOMAIN lines) \X (1 .. 10))
    BY <1>1, FS_Product
  <1>3. EligibleUnits(lines, rules) \subseteq (DOMAIN lines) \X (1 .. 10)
    BY DEF EligibleUnits
  <1>4. \A unit \in EligibleUnits(lines, rules) :
            ProductPrice(lines[unit[1]], rules) \in Nat
    BY <1>3, LinePrices DEF IsList
  <1>. QED
    BY <1>1, <1>2, <1>3, <1>4, FS_Subset DEF UnitPrices

\* The units that come before a unit, ties in the order of the cart.
Dearer(price, unit) == {other \in DOMAIN price : Precedes(price, other, unit)}

InOrder(price, seq) ==
    \A i, j \in DOMAIN seq : i < j => Precedes(price, seq[i], seq[j])

RankOf(price) == [unit \in DOMAIN price |-> 1 + Cardinality(Dearer(price, unit))]

LEMMA RanksDiffer ==
  ASSUME NEW S, IsFiniteSet(S), S \subseteq Nat \X Nat, NEW price \in [S -> Nat]
  PROVE  /\ \A u \in S : RankOf(price)[u] \in 1 .. Cardinality(S)
         /\ \A u, v \in S : u \in Dearer(price, v) => RankOf(price)[u] < RankOf(price)[v]
         /\ \A u, v \in S : u = v \/ u \in Dearer(price, v) \/ v \in Dearer(price, u)
  <1>1. ASSUME NEW u \in S
        PROVE  /\ Dearer(price, u) \subseteq S /\ u \notin Dearer(price, u)
               /\ IsFiniteSet(Dearer(price, u)) /\ Cardinality(Dearer(price, u)) \in Nat
               /\ IsFiniteSet(Dearer(price, u) \cup {u})
               /\ Cardinality(Dearer(price, u) \cup {u}) = Cardinality(Dearer(price, u)) + 1
               /\ RankOf(price)[u] = Cardinality(Dearer(price, u)) + 1
               /\ RankOf(price)[u] = Cardinality(Dearer(price, u) \cup {u})
               /\ RankOf(price)[u] \in Nat /\ RankOf(price)[u] >= 1
    <2>1. Dearer(price, u) \subseteq S /\ u \notin Dearer(price, u)
      BY DEF Dearer, Precedes, Earlier
    <2>2. IsFiniteSet(Dearer(price, u)) /\ Cardinality(Dearer(price, u)) \in Nat
      BY <2>1, FS_Subset, FS_CardinalityType
    <2>3. IsFiniteSet(Dearer(price, u) \cup {u})
          /\ Cardinality(Dearer(price, u) \cup {u}) = Cardinality(Dearer(price, u)) + 1
      BY <2>1, <2>2, FS_AddElement
    <2>. QED
      BY <2>1, <2>2, <2>3 DEF RankOf
  <1>2. ASSUME NEW u \in S
        PROVE  RankOf(price)[u] \in 1 .. Cardinality(S)
    <2>1. Dearer(price, u) \cup {u} \subseteq S
      BY <1>1
    <2>2. Cardinality(Dearer(price, u) \cup {u}) <= Cardinality(S) /\ Cardinality(S) \in Nat
      BY <2>1, FS_Subset, FS_CardinalityType
    <2>3. /\ RankOf(price)[u] = Cardinality(Dearer(price, u) \cup {u})
          /\ RankOf(price)[u] \in Nat /\ RankOf(price)[u] >= 1
      BY <1>1
    <2>. QED
      BY <2>2, <2>3
  <1>3. ASSUME NEW u \in S, NEW v \in S, u \in Dearer(price, v)
        PROVE  RankOf(price)[u] < RankOf(price)[v]
    <2>1. \A w \in S : w[1] \in Nat /\ w[2] \in Nat /\ price[w] \in Nat
      OBVIOUS
    <2>2. Dearer(price, u) \cup {u} \subseteq Dearer(price, v)
      BY <1>3, <2>1 DEF Dearer, Precedes, Earlier
    <2>3. Cardinality(Dearer(price, u) \cup {u}) <= Cardinality(Dearer(price, v))
      BY <1>1, <2>2, FS_Subset
    <2>4. /\ RankOf(price)[u] = Cardinality(Dearer(price, u) \cup {u})
          /\ RankOf(price)[v] = Cardinality(Dearer(price, v)) + 1
          /\ RankOf(price)[u] \in Nat /\ Cardinality(Dearer(price, v)) \in Nat
      BY <1>1
    <2>. QED
      BY <2>3, <2>4
  <1>4. ASSUME NEW u \in S, NEW v \in S
        PROVE  u = v \/ u \in Dearer(price, v) \/ v \in Dearer(price, u)
    <2>1. /\ u[1] \in Nat /\ u[2] \in Nat /\ v[1] \in Nat /\ v[2] \in Nat
          /\ price[u] \in Nat /\ price[v] \in Nat
          /\ u[1] = v[1] /\ u[2] = v[2] => u = v
      OBVIOUS
    <2>. QED
      BY <2>1 DEF Dearer, Precedes, Earlier
  <1>. QED
    BY <1>2, <1>3, <1>4

\* The units by rank are a way to sort them.
LEMMA RankSorts ==
  ASSUME NEW S, IsFiniteSet(S), S \subseteq Nat \X Nat, NEW price \in [S -> Nat]
  PROVE  \E t \in SetToSeqs(S) :
            /\ InOrder(price, t)
            /\ \A u \in S : RankOf(price)[u] \in 1 .. Cardinality(S) /\ t[RankOf(price)[u]] = u
            /\ {RankOf(price)[u] : u \in S} = 1 .. Cardinality(S)
            /\ \A u, v \in S : RankOf(price)[u] = RankOf(price)[v] => u = v
  <1>. DEFINE n == Cardinality(S)
              rank == RankOf(price)
              t == [k \in 1 .. n |-> CHOOSE u \in S : rank[u] = k]
  <1>1. n \in Nat /\ IsFiniteSet(1 .. n) /\ Cardinality(1 .. n) = n
    BY FS_CardinalityType, FS_Interval
  <1>2. /\ rank \in [S -> 1 .. n]
        /\ \A u, v \in S : rank[u] = rank[v] => u = v
    <2>1. \A u \in S : rank[u] \in 1 .. n
      BY RanksDiffer
    <2>2. rank = [u \in S |-> rank[u]]
      BY DEF RankOf
    <2>3. \A u, v \in S : rank[u] = rank[v] => u = v
      BY <2>1, RanksDiffer
    <2>. HIDE DEF rank
    <2>. QED
      BY <2>1, <2>2, <2>3
  <1>3. \A k \in 1 .. n : \E u \in S : rank[u] = k
    <2>. HIDE DEF rank, n
    <2>1. rank \in Injection(S, 1 .. n)
      BY <1>2 DEF Injection, IsInjective
    <2>2. rank \in Surjection(S, 1 .. n)
      BY <1>1, <2>1, FS_Injection DEF n
    <2>. QED
      BY <2>2 DEF Surjection
  <1>4. \A k \in 1 .. n : t[k] \in S /\ rank[t[k]] = k
    BY <1>3
  <1>5. t \in SetToSeqs(S)
    <2>1. t \in [1 .. n -> S] /\ \A i, j \in 1 .. n : i # j => t[i] # t[j]
      BY <1>4
    <2>. QED
      BY <2>1 DEF SetToSeqs
  <1>6. \A u \in S : t[rank[u]] = u
    BY <1>2, <1>4
  <1>7. InOrder(price, t)
    <2>1. DOMAIN t = 1 .. n
      OBVIOUS
    <2>. HIDE DEF t, rank
    <2>. SUFFICES ASSUME NEW i \in 1 .. n, NEW j \in 1 .. n, i < j
                  PROVE  t[i] \in Dearer(price, t[j])
      BY <2>1 DEF Dearer, InOrder
    <2>2. t[i] \in S /\ t[j] \in S /\ rank[t[i]] = i /\ rank[t[j]] = j
      BY <1>4
    <2>3. t[j] \in Dearer(price, t[i]) => rank[t[j]] < rank[t[i]]
      BY <2>2, RanksDiffer DEF rank
    <2>. QED
      BY <2>2, <2>3, RanksDiffer
  <1>8. {rank[u] : u \in S} = 1 .. n
    BY <1>2, <1>3
  <1>. HIDE DEF t, rank
  <1>. QED
    BY <1>2, <1>5, <1>6, <1>7, <1>8 DEF rank

LEMMA TiersAreInts ==
  ASSUME NEW tiers \in Seq(Int)
  PROVE  NormalizeTiers(tiers) \in Seq(Int)
  <1>. DEFINE m == Min({Len(tiers), MaxTiers})
  <1>1. m \in Nat /\ m <= Len(tiers)
    <2>1. Len(tiers) \in Nat /\ 9 \in Int
      OBVIOUS
    <2>2. Min({Len(tiers), 9}) = IF Len(tiers) <= 9 THEN Len(tiers) ELSE 9
      <3>1. \A a, b \in Int : Min({a, b}) = IF a <= b THEN a ELSE b
        BY MinOfTwo
      <3>2. Len(tiers) \in Int
        BY <2>1
      <3>. QED
        BY ONLY <2>1, <3>1, <3>2
    <2>. QED
      BY <2>1, <2>2 DEF MaxTiers
  <1>. HIDE DEF m
  <1>2. ASSUME NEW i \in 1 .. m PROVE Clamp(tiers[i], 0, 90) \in Int
    <2>. DEFINE pct == Clamp(tiers[i], 0, 90)
    <2>0. i \in 1 .. Len(tiers)
      BY <1>1
    <2>1. tiers[i] \in Int /\ 0 \in Int /\ 90 \in Int /\ 0 <= 90
      BY <2>0
    <2>2. pct \in 0 .. 90
      BY ONLY <2>1, ClampIsBetween
    <2>. HIDE DEF pct
    <2>3. pct \in Int
      BY <2>2
    <2>. QED
      BY <2>3 DEF pct
  <1>3. [i \in 1 .. m |-> Clamp(tiers[i], 0, 90)] \in Seq(Int)
    BY <1>1, <1>2
  <1>. QED
    BY <1>3 DEF NormalizeTiers, m

LEMMA PctIsInt ==
  ASSUME NEW tiers \in Seq(Int), NEW position \in Nat, NEW extendLast
  PROVE  PctForPosition(position, tiers, extendLast) \in Int
  <1>1. CASE position <= 1
    BY <1>1 DEF PctForPosition
  <1>2. CASE position > 1 /\ position - 1 <= Len(tiers)
    BY <1>2 DEF PctForPosition
  <1>3. CASE position > 1 /\ ~(position - 1 <= Len(tiers))
    <2>1. tiers # <<>> => Len(tiers) \in 1 .. Len(tiers)
      OBVIOUS
    <2>2. tiers # <<>> => tiers[Len(tiers)] \in Int
      BY <2>1
    <2>. QED
      BY <1>3, <2>2 DEF PctForPosition
  <1>. QED
    BY <1>1, <1>2, <1>3

\* The discount over the sorted units is the one by rank.
LEMMA DiscountByRank ==
  ASSUME NEW lines, IsList(lines), NEW rules, rules.tiers \in Seq(Int)
  PROVE  /\ ProgressiveDiscount(lines, rules) \in Int
         /\ ProgressiveDiscount(lines, rules) = RankDiscount(lines, rules)
  <1>. DEFINE tiers == NormalizeTiers(rules.tiers)
              S == EligibleUnits(lines, rules)
              n == Cardinality(S)
              price == UnitPrices(lines, rules)
              units == DearestFirst(price)
              pays(p, i) == Round(p * PctForPosition(i, tiers, rules.extendLast), 100)
              discount == [i \in DOMAIN units |-> pays(price[units[i]], i)]
              byRank == [unit \in DOMAIN price |->
                            pays(price[unit], 1 + Cardinality(Dearer(price, unit)))]
  <1>1. IsFiniteSet(S) /\ S \subseteq Nat \X Nat /\ price \in [S -> Nat] /\ DOMAIN price = S
    BY UnitsOfACart
  <1>2. tiers \in Seq(Int)
    BY TiersAreInts
  <1>. HIDE DEF tiers, S, price
  <1>3. \A p \in Nat, i \in Nat : pays(p, i) \in Int
    <2>. TAKE p \in Nat, i \in Nat
    <2>1. PctForPosition(i, tiers, rules.extendLast) \in Int
      BY <1>2, PctIsInt
    <2>2. p * PctForPosition(i, tiers, rules.extendLast) \in Int
      BY ONLY <2>1, p \in Int, ProductIsInt
    <2>. QED
      BY <2>2, RoundIsInt
  <1>. HIDE DEF pays
  <1>4. PICK t \in SetToSeqs(S) :
            /\ InOrder(price, t)
            /\ \A u \in S : RankOf(price)[u] \in 1 .. n /\ t[RankOf(price)[u]] = u
            /\ {RankOf(price)[u] : u \in S} = 1 .. n
            /\ \A u, v \in S : RankOf(price)[u] = RankOf(price)[v] => u = v
    BY <1>1, RankSorts
  <1>5. /\ units \in SetToSeqs(S) /\ Sorted(price, units)
        /\ t \in SetToSeqs(S) /\ Sorted(price, t)
    <2>1. units \in SetToSeqs(S) /\ InOrder(price, units)
      BY <1>1, <1>4 DEF DearestFirst, InOrder
    <2>2. \A s \in SetToSeqs(S) : DOMAIN s = 1 .. n /\ \A i \in DOMAIN s : s[i] \in S
      BY <1>1, Enumerated
    <2>3. \A u, v \in S : Precedes(price, u, v) => price[u] >= price[v]
      BY <1>1 DEF Precedes
    <2>4. t \in SetToSeqs(S) /\ InOrder(price, t)
      BY <1>4
    <2>. HIDE DEF units
    <2>. QED
      BY <2>1, <2>2, <2>3, <2>4 DEF Sorted, InOrder
  <1>6. n \in Nat /\ DOMAIN units = 1 .. n /\ \A i \in 1 .. n : units[i] \in S
    BY <1>1, <1>5, Enumerated
  <1>7. \A i \in 1 .. n : t[i] \in S /\ price[units[i]] = price[t[i]]
    <2>. TAKE i \in 1 .. n
    <2>1. t[i] \in S
      <3>1. t \in SetToSeqs(S)
        BY <1>4
      <3>2. DOMAIN t = 1 .. n /\ \A j \in DOMAIN t : t[j] \in S
        BY ONLY <1>1, <3>1, Enumerated
      <3>. QED
        BY <3>2
    <2>2. price[units[i]] = price[t[i]]
      BY ONLY <1>1, <1>5, i \in 1 .. n, SortsAgree DEF n
    <2>. QED
      BY <2>1, <2>2
  <1>. HIDE DEF n, units
  <1>8. IsFiniteSet(1 .. n)
    BY <1>6, FS_Interval
  <1>9. \A i \in 1 .. n : discount[i] \in Int
    <2>. TAKE i \in 1 .. n
    <2>1. price[units[i]] \in Nat /\ i \in Nat
      BY <1>1, <1>6
    <2>2. discount[i] = pays(price[units[i]], i)
      BY <1>6
    <2>. QED
      BY <1>3, <2>1, <2>2
  <1>10. Total(discount, 1 .. n) \in Int
    <2>. HIDE DEF discount
    <2>. QED
      BY <1>8, <1>9, TotalInt
  <1>11. \A u \in S : byRank[u] \in Int /\ byRank[u] = discount[RankOf(price)[u]]
    <2>. TAKE u \in S
    <2>1. RankOf(price)[u] \in 1 .. n /\ t[RankOf(price)[u]] = u
      BY <1>4
    <2>2. RankOf(price)[u] = 1 + Cardinality(Dearer(price, u))
      BY <1>1 DEF RankOf
    <2>3. price[units[RankOf(price)[u]]] = price[u]
      BY <1>7, <2>1
    <2>4. byRank[u] = pays(price[u], RankOf(price)[u])
      BY <1>1, <2>2
    <2>5. discount[RankOf(price)[u]] = pays(price[u], RankOf(price)[u])
      BY <1>6, <2>1, <2>3
    <2>6. price[u] \in Nat /\ RankOf(price)[u] \in Nat
      BY <1>1, <1>6, <2>1
    <2>. QED
      BY <1>3, <2>4, <2>5, <2>6
  <1>12. Total(byRank, S) = Total(discount, 1 .. n)
    <2>. HIDE DEF byRank, discount
    <2>. DEFINE r == RankOf(price)
    <2>1. /\ \A u \in S : byRank[u] \in Int /\ byRank[u] = discount[r[u]]
          /\ \A u, v \in S : r[u] = r[v] => u = v
      <3>1. \A u, v \in S : r[u] = r[v] => u = v
        BY <1>4
      <3>2. \A u \in S : byRank[u] \in Int /\ byRank[u] = discount[r[u]]
        BY <1>11
      <3>. QED
        BY <3>1, <3>2
    <2>. HIDE DEF r
    <2>2. Total(byRank, S) = Total(discount, {r[u] : u \in S})
      BY ONLY <1>1, <2>1, TotalRenamed
    <2>3. Total(byRank, S) = Total(discount, {RankOf(price)[u] : u \in S})
      BY <2>2 DEF r
    <2>. QED
      BY <1>4, <2>3
  <1>13. Len(units) = n
    BY <1>5, <1>6 DEF SetToSeqs
  <1>14. tiers = <<>> => Total(byRank, S) = 0
    <2>. SUFFICES ASSUME tiers = <<>> PROVE Total(byRank, S) = 0
      OBVIOUS
    <2>1. \A p \in Nat, i \in Nat : pays(p, i) = 0
      BY DEF pays, PctForPosition, Round
    <2>2. \A u \in S : byRank[u] = 0
      <3>. TAKE u \in S
      <3>1. RankOf(price)[u] = 1 + Cardinality(Dearer(price, u)) /\ RankOf(price)[u] \in Nat
        BY <1>1, <1>4, <1>6 DEF RankOf
      <3>. QED
        BY <1>1, <2>1, <3>1
    <2>. HIDE DEF byRank
    <2>. QED
      BY <1>1, <2>2, TotalZero
  <1>15. ProgressiveDiscount(lines, rules)
            = IF ~rules.progressive \/ tiers = <<>> \/ Len(units) < 2
              THEN 0 ELSE Total(discount, DOMAIN units)
    BY DEF ProgressiveDiscount, tiers, price, units, pays
  <1>16. RankDiscount(lines, rules)
            = IF rules.progressive /\ Cardinality(DOMAIN price) > 1
              THEN Total(byRank, DOMAIN price) ELSE 0
    BY DEF RankDiscount, tiers, price, pays, Dearer
  <1>. HIDE DEF discount, byRank
  <1>17. ProgressiveDiscount(lines, rules)
            = IF ~rules.progressive \/ tiers = <<>> \/ n < 2
              THEN 0 ELSE Total(discount, 1 .. n)
    BY <1>6, <1>13, <1>15
  <1>18. RankDiscount(lines, rules)
            = IF rules.progressive /\ n > 1 THEN Total(discount, 1 .. n) ELSE 0
    BY <1>1, <1>12, <1>16 DEF n
  <1>. QED
    BY <1>6, <1>10, <1>12, <1>14, <1>17, <1>18

LEMMA SubtotalIsNat ==
  ASSUME NEW lines, IsList(lines), NEW rules, rules.tiers \in Seq(Int)
  PROVE  Subtotal(lines, rules) \in Nat
  <1>. DEFINE totals == [i \in DOMAIN lines |-> LineTotal(lines[i], rules)]
              gross == Total(totals, DOMAIN lines)
              value == [b \in Bundles(lines) |-> BundleTotal(lines, rules, b)]
              bundled == 100 * gross - BundleSubtotal(lines, rules) * BundlePct
              less == 100 * ProgressiveDiscount(lines, rules)
  <1>1. gross \in Int
    <2>1. IsFiniteSet(DOMAIN lines)
      BY FS_Interval DEF IsList
    <2>2. \A i \in DOMAIN lines : totals[i] \in Int
      BY LinePrices DEF IsList
    <2>. HIDE DEF totals
    <2>. QED
      BY <2>1, <2>2, TotalInt
  <1>2. BundleSubtotal(lines, rules) \in Int
    <2>1. IsFiniteSet(Bundles(lines))
      BY BundlesAreFinite
    <2>2. \A b \in Bundles(lines) : value[b] \in Int
      BY BundleTotalIsInt
    <2>3. BundleSubtotal(lines, rules) = Total(value, Bundles(lines))
      BY DEF BundleSubtotal
    <2>. HIDE DEF value
    <2>. QED
      BY <2>1, <2>2, <2>3, TotalInt
  <1>. HIDE DEF gross
  <1>3. bundled \in Int /\ less \in Int
    <2>1. BundleSubtotal(lines, rules) * BundlePct \in Int
      BY <1>2, PricingAssumption, ProductIsInt
    <2>. QED
      BY <1>1, <2>1, DiscountByRank
  <1>4. Subtotal(lines, rules) = bundled - Min({less, bundled})
    BY DEF Subtotal, gross
  <1>. HIDE DEF bundled, less
  <1>. QED
    BY <1>3, <1>4, MinOfTwo

LEMMA BeforeCreditIsNat ==
  ASSUME NEW cart, IsList(cart.lines), cart.shipping \in Int,
         NEW terms, terms.pct \in Int, NEW rules, rules.tiers \in Seq(Int)
  PROVE  BeforeCredit(cart, terms, rules) \in Nat
  <1>. DEFINE subtotal == ApplyCoupon(Subtotal(cart.lines, rules), terms)
              pix == IF cart.method = "Pix" /\ ~terms.minimumCharge THEN 100 - PixPct ELSE 100
              discounted == Round(subtotal * pix, 1000000)
  <1>1. subtotal \in Nat
    <2>. DEFINE pct == Clamp(terms.pct, 0, 99)
    <2>1. pct \in 0 .. 99
      <3>1. terms.pct \in Int /\ 0 \in Int /\ 99 \in Int /\ 0 <= 99
        OBVIOUS
      <3>. QED
        BY ONLY <3>1, ClampIsBetween
    <2>2. Subtotal(cart.lines, rules) \in Nat
      BY SubtotalIsNat
    <2>3. subtotal = IF terms.minimumCharge THEN 500 * 10000
                     ELSE Subtotal(cart.lines, rules) * (100 - pct)
      BY DEF ApplyCoupon, SpecialCouponTotal
    <2>. HIDE DEF pct, subtotal
    <2>4. 100 - pct \in Nat
      BY <2>1
    <2>5. Subtotal(cart.lines, rules) * (100 - pct) \in Nat
      BY ONLY <2>2, <2>4, ProductIsNat
    <2>. QED
      BY <2>3, <2>5
  <1>. HIDE DEF subtotal
  <1>2. pix \in Nat
    BY PricingAssumption
  <1>. HIDE DEF pix
  <1>3. discounted \in Nat
    <2>1. subtotal * pix \in Nat
      BY ONLY <1>1, <1>2, ProductIsNat
    <2>. QED
      BY <2>1, RoundIsInt
  <1>4. ProductTotal(subtotal, terms, cart.method)
            = IF cart.method = "Pix" THEN EnforceMinimumCharge(discounted) ELSE discounted
    BY DEF ProductTotal, pix
  <1>. HIDE DEF discounted
  <1>5. ProductTotal(subtotal, terms, cart.method) \in Nat
    BY <1>3, <1>4 DEF EnforceMinimumCharge, MinimumCharge
  <1>6. ShippingPrice(subtotal, terms, cart.shipping) \in Nat
    BY MaxOfTwo DEF ShippingPrice
  <1>7. BeforeCredit(cart, terms, rules)
            = ProductTotal(subtotal, terms, cart.method) + ShippingPrice(subtotal, terms, cart.shipping)
    BY DEF BeforeCredit, subtotal
  <1>. QED
    BY <1>5, <1>6, <1>7

-----------------------------------------------------------------------------
(* The invariants *)

\* What a manager saves is normalized; the first settings are those of the defaults.
Saved == Patches \cup {[patch EXCEPT !.tiers = NormalizeTiers(@)] : patch \in Patches}

Rows == [status : Statuses, number : Nat, total : Nat, credit : Nat,
         coupon : Coupons \cup {NoCoupon}, price : Nat, late : BOOLEAN]

Works == [pc : Pcs, before : Nat, taken : Nat, seen : Nat]

Types ==
    /\ settings \in Saved
    /\ coupon \in [Coupons -> {"active", "paused", "removed"}]
    /\ lockedBy \in [Coupons -> SUBSET Orders]
    /\ counter \in Nat
    /\ order \in [Orders -> Rows]
    /\ request \in [Orders -> Works]

Checked == UNION {{<<c, b>> : b \in 0 .. InitialAmount[c]} : c \in overdue}

\* A read that validate() is about to save is of a credit past its time.
Wallets ==
    /\ balance \in [Credits -> Nat]
    /\ \A c \in Credits : balance[c] <= InitialAmount[c]
    /\ creditStatus \in [Credits -> {"active", "used", "expired"}]
    /\ overdue \subseteq Credits
    /\ allocated \in [Orders -> [Credits -> Nat]]
    /\ freed \in [Orders -> [Credits -> Nat]]
    /\ \A o \in Orders, c \in Credits :
        freed[o][c] <= allocated[o][c] /\ allocated[o][c] <= InitialAmount[c]
    /\ validating = NoCheck \/ validating \in Checked

Early == {"count", "counted", "credit"}
Late == {"trim", "lock", "check", "insert"}
Ending == {"giveBack", "clear", "drop", "deleteFree", "deleteRow"}

\* Where the row of an order is while a request works on it.
Stage(o) ==
    /\ At(o, "idle") => request[o] = Idle
    /\ request[o].pc \in Early => request[o].taken = 0
    /\ request[o].pc \in Early \cup Late => order[o].status = "absent"
    /\ At(o, "undo") => order[o].status \in {"absent", "gone"}
    /\ request[o].pc \in {"stock", "erase"} =>
            order[o].status = "pending" /\ request[o].taken = order[o].credit
    /\ request[o].pc \in Ending =>
            order[o].status \notin {"absent", "gone", "pending", "expired", "paid"}
    /\ At(o, "drop") => request[o].taken = order[o].credit
    /\ At(o, "free") => order[o].status = "gone"

\* The credit that is off the balance for the order: recorded by the request until the
\* row records it.
Held(o) ==
    CASE request[o].pc \in Late \cup {"undo", "drop", "free"} -> request[o].taken
      [] request[o].pc \in {"stock", "erase", "giveBack", "deleteFree"} -> order[o].credit
      [] At(o, "idle") /\ Exists(o) -> order[o].credit
      [] OTHER -> 0

\* An order reserves once: its allocations are empty until then.
Fresh(o) ==
    order[o].status = "absent" /\ request[o].pc \in Early \cup {"idle"} =>
        \A c \in Credits : allocated[o][c] = 0

Priced(o) ==
    /\ request[o].pc \in Late => request[o].taken <= request[o].before
    /\ At(o, "trim") => TooSmall(o, request[o].before - request[o].taken)
    /\ request[o].pc \in Late \ {"trim"} /\ TooSmall(o, request[o].before - request[o].taken)
            => request[o].taken = 0

\* PriceIsPaid, for the orders that may still be paid as well.
Paying(o) ==
    order[o].status \in {"pending", "expired", "paid"} =>
        /\ \/ order[o].total + order[o].credit = order[o].price
           \/ order[o].total = MinimumCharge /\ order[o].credit = 0
        /\ Cart[o].method = "Pix" => order[o].total = 0 \/ order[o].total >= MinimumCharge

OnTime(k) == {o \in Uses(k) : ~order[o].late}

\* One request at a time is between the second look at a coupon and the insert, and
\* what it saw still holds.
CouponInv ==
    /\ \A k \in Coupons : \A o, p \in lockedBy[k] : o = p
    /\ \A o \in Orders :
        /\ request[o].pc \in {"lock", "check"} => UsesCoupon(o)
        /\ request[o].pc \in {"check", "insert"} /\ UsesCoupon(o) => o \in lockedBy[CouponOf(o)]
        /\ At(o, "insert") /\ UsesCoupon(o) /\ Terms[CouponOf(o)].maxUses > 0 =>
                Cardinality(OnTime(CouponOf(o))) < Terms[CouponOf(o)].maxUses
    /\ CouponLimit

-----------------------------------------------------------------------------
(* The prices of the carts *)

LEMMA SavedTiers ==
  ASSUME NEW s \in Saved
  PROVE  s.tiers \in Seq(Int)
  <1>1. \A patch \in Patches : patch \in PromotionSettings /\ patch.tiers \in Seq(Int)
    BY CheckoutAssumption DEF PromotionSettings
  <1>2. ASSUME NEW patch \in Patches
        PROVE  [patch EXCEPT !.tiers = NormalizeTiers(@)].tiers \in Seq(Int)
    <2>1. NormalizeTiers(patch.tiers) \in Seq(Int)
      BY <1>1, TiersAreInts
    <2>. QED
      BY <1>1, <2>1 DEF PromotionSettings
  <1>. QED
    BY <1>1, <1>2 DEF Saved

\* The price of a cart is an amount of money, whatever the settings.
LEMMA PricesAreNatural ==
  ASSUME NEW o \in Orders, NEW s \in Saved
  PROVE  BeforeCredit(Cart[o], TermsOf(o), s) \in Nat
  <1>1. IsList(Cart[o].lines) /\ Cart[o].shipping \in Int
    BY CheckoutAssumption
  <1>2. TermsOf(o).pct \in Int
    BY CheckoutAssumption DEF TermsOf, CouponOf, NoTerms
  <1>3. s.tiers \in Seq(Int)
    BY SavedTiers
  <1>. QED
    BY <1>1, <1>2, <1>3, BeforeCreditIsNat

-----------------------------------------------------------------------------
(* The shares of an amount *)

\* Every credit has one place in such a list.
LEMMA Places ==
  ASSUME NEW seq \in SetToSeqs(Credits)
  PROVE  /\ Cardinality(Credits) \in Nat
         /\ DOMAIN seq = 1 .. Cardinality(Credits)
         /\ \A i \in DOMAIN seq : seq[i] \in Credits
         /\ \A i, j \in DOMAIN seq : seq[i] = seq[j] => i = j
         /\ \A c \in Credits : \E i \in DOMAIN seq : seq[i] = c
  BY CreditsAssumption, Enumerated

LEMMA PlaceOf ==
  ASSUME NEW seq \in SetToSeqs(Credits), NEW i \in DOMAIN seq
  PROVE  Before(seq, seq[i]) = {seq[j] : j \in 1 .. i - 1}
  <1>. DEFINE k == CHOOSE j \in DOMAIN seq : seq[j] = seq[i]
  <1>1. k \in DOMAIN seq /\ seq[k] = seq[i]
    OBVIOUS
  <1>2. k = i
    BY <1>1, Places
  <1>. QED
    BY <1>2 DEF Before

\* No credit gives more than it has, and together they give the amount, or all they have.
LEMMA SharesFit ==
  ASSUME NEW seq \in SetToSeqs(Credits), NEW have, \A c \in Credits : have[c] \in Nat,
         NEW amount \in Nat
  PROVE  /\ \A c \in Credits : /\ Shares(seq, have, amount)[c] \in Nat
                               /\ Shares(seq, have, amount)[c] <= have[c]
         /\ Total(have, Credits) \in Nat
         /\ Total(Shares(seq, have, amount), Credits)
                = IF amount <= Total(have, Credits) THEN amount ELSE Total(have, Credits)
  <1>. DEFINE n == Cardinality(Credits)
              shares == Shares(seq, have, amount)
              First(k) == {seq[j] : j \in 1 .. k}
              Lesser(a, b) == IF a <= b THEN a ELSE b
  <1>1. /\ n \in Nat /\ DOMAIN seq = 1 .. n /\ IsFiniteSet(Credits)
        /\ \A i \in 1 .. n : seq[i] \in Credits
        /\ \A i, j \in 1 .. n : seq[i] = seq[j] => i = j
        /\ \A c \in Credits : \E i \in 1 .. n : seq[i] = c
    BY Places, CreditsAssumption
  <1>2. \A k \in 0 .. n : First(k) \subseteq Credits /\ IsFiniteSet(First(k))
    <2>. SUFFICES ASSUME NEW k \in 0 .. n
                  PROVE  First(k) \subseteq Credits /\ IsFiniteSet(First(k))
      OBVIOUS
    <2>1. First(k) \subseteq Credits
      BY <1>1
    <2>. QED
      BY <2>1, <1>1, FS_Subset
  <1>3. \A k \in 0 .. n : Total(have, First(k)) \in Nat
    BY <1>2, TotalNat
  <1>4. \A k \in 1 .. n : shares[seq[k]] =
            IF amount - Total(have, First(k - 1)) > 0
            THEN Lesser(have[seq[k]], amount - Total(have, First(k - 1)))
            ELSE 0
    <2>. SUFFICES ASSUME NEW k \in 1 .. n
                  PROVE  shares[seq[k]] =
                            IF amount - Total(have, First(k - 1)) > 0
                            THEN Lesser(have[seq[k]], amount - Total(have, First(k - 1)))
                            ELSE 0
      OBVIOUS
    <2>1. Before(seq, seq[k]) = First(k - 1)
      BY PlaceOf, <1>1
    <2>2. seq[k] \in Credits /\ k - 1 \in 0 .. n
      BY <1>1
    <2>3. Total(have, First(k - 1)) \in Nat /\ have[seq[k]] \in Nat
      BY <2>2, <1>3
    <2>4. shares[seq[k]] = LET left == amount - Total(have, First(k - 1))
                           IN  IF left > 0 THEN Min({have[seq[k]], left}) ELSE 0
      BY <2>1, <2>2 DEF Shares
    <2>. HIDE DEF shares, First
    <2>5. Min({have[seq[k]], amount - Total(have, First(k - 1))})
             = Lesser(have[seq[k]], amount - Total(have, First(k - 1)))
      BY <2>3, MinOfTwo
    <2>. QED
      BY <2>4, <2>5
  <1>5. \A c \in Credits : shares[c] \in Nat /\ shares[c] <= have[c]
    <2>. SUFFICES ASSUME NEW c \in Credits PROVE shares[c] \in Nat /\ shares[c] <= have[c]
      OBVIOUS
    <2>1. PICK k \in 1 .. n : seq[k] = c
      BY <1>1
    <2>2. Total(have, First(k - 1)) \in Nat /\ have[c] \in Nat
      <3>1. k - 1 \in 0 .. n
        BY <1>1
      <3>. QED
        BY <3>1, <1>3
    <2>3. shares[c] = IF amount - Total(have, First(k - 1)) > 0
                      THEN Lesser(have[c], amount - Total(have, First(k - 1)))
                      ELSE 0
      BY <2>1, <1>4
    <2>. HIDE DEF shares, First
    <2>. QED
      BY <2>2, <2>3
  <1>6. \A k \in 0 .. n : Total(shares, First(k)) = Lesser(amount, Total(have, First(k)))
    <2>. DEFINE G == {k \in Nat : k <= n =>
                        Total(shares, First(k)) = Lesser(amount, Total(have, First(k)))}
    <2>1. 0 \in G
      <3>1. First(0) = {}
        OBVIOUS
      <3>2. Total(shares, {}) = 0 /\ Total(have, {}) = 0
        BY TotalEmpty
      <3>. QED
        BY <3>1, <3>2
    <2>2. ASSUME NEW k \in G PROVE k + 1 \in G
      <3>. SUFFICES ASSUME k + 1 <= n
                    PROVE  Total(shares, First(k + 1)) = Lesser(amount, Total(have, First(k + 1)))
        OBVIOUS
      <3>1. k \in 0 .. n /\ k + 1 \in 1 .. n
        BY <1>1
      <3>. DEFINE c == seq[k + 1]
      <3>2. First(k + 1) = First(k) \cup {c}
        <4>1. 1 .. k + 1 = (1 .. k) \cup {k + 1}
          BY <3>1
        <4>. QED
          BY <4>1
      <3>3. c \notin First(k)
        BY <1>1, <3>1
      <3>4. c \in Credits
        BY <1>1, <3>1
      <3>5. First(k) \subseteq Credits /\ IsFiniteSet(First(k)) /\ Total(have, First(k)) \in Nat
        BY <1>2, <1>3, <3>1
      <3>6. Total(shares, First(k)) = Lesser(amount, Total(have, First(k)))
        BY <1>1, <3>1
      <3>7. shares[c] = IF amount - Total(have, First(k)) > 0
                        THEN Lesser(have[c], amount - Total(have, First(k)))
                        ELSE 0
        <4>1. (k + 1) - 1 = k
          BY <3>1
        <4>. QED
          BY <4>1, <3>1, <1>4
      <3>. HIDE DEF shares, First, c
      <3>8. Total(shares, First(k) \cup {c}) = shares[c] + Total(shares, First(k))
        BY <3>3, <3>4, <3>5, <1>5, TotalInsert
      <3>9. Total(have, First(k) \cup {c}) = have[c] + Total(have, First(k))
        BY <3>3, <3>4, <3>5, TotalInsert
      <3>10. have[c] \in Nat
        BY <3>4
      <3>. DEFINE before == Total(have, First(k))
      <3>11. before \in Nat /\ Total(have, First(k + 1)) = have[c] + before
        BY <3>2, <3>5, <3>9
      <3>12. Total(shares, First(k + 1)) = shares[c] + Lesser(amount, before)
        BY <3>2, <3>6, <3>8
      <3>13. shares[c] = IF amount - before > 0 THEN Lesser(have[c], amount - before) ELSE 0
        BY <3>7
      <3>. HIDE DEF before
      <3>. QED
        BY <3>10, <3>11, <3>12, <3>13
    <2>. HIDE DEF G
    <2>3. G = Nat
      <3>1. G \in SUBSET Nat
        BY DEF G
      <3>. QED
        BY <3>1, <2>1, <2>2, NumberInduction
    <2>4. ASSUME NEW k \in 0 .. n
          PROVE  Total(shares, First(k)) = Lesser(amount, Total(have, First(k)))
      <3>. HIDE DEF shares, First, Lesser
      <3>. QED
        BY <2>3, <1>1 DEF G
    <2>. QED
      BY <2>4
  <1>7. First(n) = Credits
    BY <1>1
  <1>8. n \in 0 .. n
    BY <1>1
  <1>. QED
    BY <1>3, <1>5, <1>6, <1>7, <1>8

-----------------------------------------------------------------------------
(* What reservations and releases do to the credits *)

OutOf(a, f) == Total([c \in Credits |-> a[c] - f[c]], Credits)

\* What all reservations hold of the credit c.
Used(a, f, c) == Total([r \in Reservations |-> a[r][c] - f[r][c]], Reservations)

LEMMA Sums ==
  /\ \A o : Outstanding(o) = OutOf(allocated[o], freed[o])
  /\ \A o : Outstanding(o)' = OutOf(allocated'[o], freed'[o])
  /\ CreditConserved <=>
        \A c \in Credits \ overdue : balance[c] + Used(allocated, freed, c) = InitialAmount[c]
  /\ CreditConserved' <=>
        \A c \in Credits \ overdue' : balance'[c] + Used(allocated', freed', c) = InitialAmount[c]
  BY DEF Outstanding, OutOf, Used, CreditConserved

\* The other orders keep what they had.
Apart(o) == \A p \in Orders \ {o} : allocated'[p] = allocated[p] /\ freed'[p] = freed[p]

LEMMA ApartIsSame ==
  ASSUME NEW o \in Orders, Apart(o), NEW p \in Orders \ {o}
  PROVE  Outstanding(p)' = Outstanding(p)
  BY Sums DEF Apart

LEMMA OutstandingIsNat ==
  ASSUME Wallets, NEW o \in Orders
  PROVE  Outstanding(o) \in Nat
  <1>. DEFINE f == [c \in Credits |-> allocated[o][c] - freed[o][c]]
  <1>1. \A c \in Credits : f[c] \in Nat
    <2>. SUFFICES ASSUME NEW c \in Credits PROVE allocated[o][c] - freed[o][c] \in Nat
      OBVIOUS
    <2>1. allocated[o][c] \in Nat /\ freed[o][c] \in Nat /\ freed[o][c] <= allocated[o][c]
      BY DEF Wallets
    <2>. QED
      BY <2>1
  <1>2. Total(f, Credits) \in Nat
    <2>. HIDE DEF f
    <2>. QED
      BY <1>1, CreditsAssumption, TotalNat
  <1>. QED
    BY <1>2 DEF Outstanding

\* One reservation changes: the sum for each credit changes with it.
LEMMA UsedChanges ==
  ASSUME Wallets, Wallets', NEW o \in Orders, Apart(o), NEW c \in Credits
  PROVE  /\ Used(allocated, freed, c) \in Int
         /\ Used(allocated', freed', c)
              = Used(allocated, freed, c)
                  + (allocated'[o][c] - freed'[o][c]) - (allocated[o][c] - freed[o][c])
  <1>. DEFINE f == [r \in Reservations |-> allocated[r][c] - freed[r][c]]
              g == [r \in Reservations |-> allocated'[r][c] - freed'[r][c]]
  <1>1. Reservations = Orders /\ IsFiniteSet(Orders)
    BY CheckoutAssumption
  <1>2. \A r \in Orders : f[r] \in Nat /\ g[r] \in Int
    <2>. SUFFICES ASSUME NEW r \in Orders
                  PROVE  /\ allocated[r][c] - freed[r][c] \in Nat
                         /\ allocated'[r][c] - freed'[r][c] \in Int
      BY <1>1
    <2>1. allocated[r][c] \in Nat /\ freed[r][c] \in Nat /\ freed[r][c] <= allocated[r][c]
      BY DEF Wallets
    <2>2. allocated'[r][c] \in Nat /\ freed'[r][c] \in Nat
      BY DEF Wallets
    <2>. QED
      BY <2>1, <2>2
  <1>3. \A r \in Orders \ {o} : f[r] = g[r]
    BY <1>1 DEF Apart
  <1>4. /\ f[o] = allocated[o][c] - freed[o][c]
        /\ g[o] = allocated'[o][c] - freed'[o][c]
    BY <1>1
  <1>5. Used(allocated, freed, c) = Total(f, Orders) /\ Used(allocated', freed', c) = Total(g, Orders)
    BY <1>1 DEF Used
  <1>. HIDE DEF f, g
  <1>6. Total(g, Orders) = Total(f, Orders) + g[o] - f[o]
    BY <1>1, <1>2, <1>3, TotalUpdate
  <1>7. Total(f, Orders) \in Nat
    BY <1>1, <1>2, TotalNat
  <1>. QED
    BY <1>2, <1>4, <1>5, <1>6, <1>7

\* What one reservation holds of a credit is part of what all hold.
LEMMA UsedCovers ==
  ASSUME Wallets, NEW o \in Orders, NEW c \in Credits
  PROVE  allocated[o][c] - freed[o][c] <= Used(allocated, freed, c)
  <1>. DEFINE f == [r \in Reservations |-> allocated[r][c] - freed[r][c]]
  <1>1. Reservations = Orders /\ IsFiniteSet(Orders)
    BY CheckoutAssumption
  <1>2. \A r \in Orders : f[r] \in Nat
    <2>. SUFFICES ASSUME NEW r \in Orders PROVE allocated[r][c] - freed[r][c] \in Nat
      BY <1>1
    <2>1. allocated[r][c] \in Nat /\ freed[r][c] \in Nat /\ freed[r][c] <= allocated[r][c]
      BY DEF Wallets
    <2>. QED
      BY <2>1
  <1>3. f[o] = allocated[o][c] - freed[o][c] /\ Used(allocated, freed, c) = Total(f, Orders)
    BY <1>1 DEF Used
  <1>. HIDE DEF f
  <1>. QED
    BY <1>1, <1>2, <1>3, TotalCovers

\* A credit that was not taken from anyone since: nothing of it is lost.
LEMMA ConservedStep ==
  ASSUME Wallets, Wallets', CreditConserved, NEW o \in Orders, Apart(o),
         overdue \subseteq overdue',
         \A c \in Credits \ overdue' :
            balance'[c] + (allocated'[o][c] - freed'[o][c])
                = balance[c] + (allocated[o][c] - freed[o][c])
  PROVE  CreditConserved'
  <1>. SUFFICES ASSUME NEW c \in Credits, c \notin overdue'
                PROVE  balance'[c] + Used(allocated', freed', c) = InitialAmount[c]
    BY Sums
  <1>1. balance[c] + Used(allocated, freed, c) = InitialAmount[c]
    BY Sums
  <1>2. /\ allocated[o][c] \in Nat /\ freed[o][c] \in Nat /\ balance[c] \in Nat
        /\ allocated'[o][c] \in Nat /\ freed'[o][c] \in Nat /\ balance'[c] \in Nat
    BY DEF Wallets
  <1>. QED
    BY <1>1, <1>2, UsedChanges

LEMMA AvailableFits ==
  ASSUME Wallets, NEW customer, NEW maximum \in Nat
  PROVE  Available(customer, maximum) \in Nat /\ Available(customer, maximum) <= maximum
  <1>1. Total(balance, Spendable(customer)) \in Nat
    <2>1. Spendable(customer) \subseteq Credits
      BY DEF Spendable
    <2>2. IsFiniteSet(Spendable(customer))
      BY <2>1, CreditsAssumption, FS_Subset
    <2>3. \A c \in Spendable(customer) : balance[c] \in Nat
      BY <2>1 DEF Wallets
    <2>. QED
      BY <2>2, <2>3, TotalNat
  <1>. QED
    BY <1>1, MinOfTwo DEF Available

LEMMA Reserved ==
  ASSUME Wallets, NEW o \in Orders, NEW customer, NEW maximum \in Nat,
         \A c \in Credits : allocated[o][c] = 0,
         ReserveBalance(o, customer, maximum)
  PROVE  /\ Wallets'
         /\ Apart(o)
         /\ Outstanding(o)' = Available(customer, maximum)
         /\ CreditConserved => CreditConserved'
  <1>. DEFINE S == Spendable(customer)
              have == [c \in Credits |-> IF c \in S THEN balance[c] ELSE 0]
              used == Shares(ExpiryOrder, have, maximum)
  <1>1. /\ balance \in [Credits -> Nat] /\ allocated \in [Orders -> [Credits -> Nat]]
        /\ freed \in [Orders -> [Credits -> Nat]]
        /\ \A c \in Credits : balance[c] <= InitialAmount[c] /\ InitialAmount[c] \in Nat
        /\ \A p \in Orders, c \in Credits : freed[p][c] <= allocated[p][c]
                                            /\ allocated[p][c] <= InitialAmount[c]
    BY CreditsAssumption DEF Wallets
  <1>2. \A c \in Credits : have[c] \in Nat /\ have[c] <= balance[c]
    BY <1>1
  <1>3. S \subseteq Credits /\ IsFiniteSet(Credits) /\ IsFiniteSet(S) /\ IsFiniteSet(Credits \ S)
    <2>1. S \subseteq Credits
      BY DEF Spendable
    <2>. QED
      BY <2>1, CreditsAssumption, FS_Subset
  <1>4. Total(have, Credits) = Total(balance, S)
    <2>1. Total(have, S) = Total(balance, S)
      <3>1. \A c \in S : have[c] = balance[c]
        BY <1>3
      <3>. HIDE DEF have, S
      <3>. QED
        BY <3>1, <1>3, TotalEqual
    <2>2. Total(have, Credits \ S) = 0
      <3>1. \A c \in Credits \ S : have[c] = 0
        OBVIOUS
      <3>. HIDE DEF have, S
      <3>. QED
        BY <3>1, <1>3, TotalZero
    <2>3. Total(have, S \cup (Credits \ S)) = Total(have, S) + Total(have, Credits \ S)
      <3>1. \A c \in S \cup (Credits \ S) : have[c] \in Int
        BY <1>2, <1>3
      <3>. HIDE DEF have, S
      <3>. QED
        BY <3>1, <1>3, TotalSplit
    <2>4. S \cup (Credits \ S) = Credits
      BY <1>3
    <2>5. Total(balance, S) \in Nat
      <3>. HIDE DEF S
      <3>. QED
        BY <1>1, <1>3, TotalNat
    <2>. HIDE DEF have, S
    <2>. QED
      BY <2>1, <2>2, <2>3, <2>4, <2>5
  <1>5. /\ \A c \in Credits : used[c] \in Nat /\ used[c] <= have[c]
        /\ Total(have, Credits) \in Nat
        /\ Total(used, Credits)
              = IF maximum <= Total(have, Credits) THEN maximum ELSE Total(have, Credits)
    <2>. HIDE DEF have
    <2>. QED
      BY <1>2, SharesFit, CreditsAssumption
  <1>6. Total(used, Credits) = Available(customer, maximum)
    <2>. HIDE DEF have, used
    <2>. QED
      BY <1>4, <1>5, MinOfTwo DEF Available
  <1>7. used \in [Credits -> Nat]
    <2>1. used = [c \in Credits |-> used[c]]
      BY DEF Shares
    <2>. HIDE DEF used
    <2>. QED
      BY <2>1, <1>5
  <1>8. /\ balance' = [c \in Credits |-> balance[c] - used[c]]
        /\ allocated' = [allocated EXCEPT ![o] = used]
        /\ overdue' = overdue /\ freed' = freed /\ validating' = validating
    BY DEF ReserveBalance
  <1>9. creditStatus' \in [Credits -> {"active", "used", "expired"}]
    <2>1. creditStatus \in [Credits -> {"active", "used", "expired"}]
      BY DEF Wallets
    <2>. QED
      BY <2>1 DEF ReserveBalance, StatusFor
  <1>. HIDE DEF used, have, S
  <1>10. \A c \in Credits : /\ used[c] \in Nat /\ used[c] <= balance[c]
                            /\ freed[o][c] = 0
    <2>. SUFFICES ASSUME NEW c \in Credits
                  PROVE  used[c] \in Nat /\ used[c] <= balance[c] /\ freed[o][c] = 0
      OBVIOUS
    <2>1. freed[o][c] \in Nat /\ freed[o][c] <= allocated[o][c] /\ allocated[o][c] = 0
      BY <1>1
    <2>2. balance[c] \in Nat /\ used[c] \in Nat /\ have[c] \in Nat
          /\ used[c] <= have[c] /\ have[c] <= balance[c]
      BY <1>1, <1>2, <1>5
    <2>. QED
      BY <2>1, <2>2
  <1>11. Wallets'
    <2>1. balance' \in [Credits -> Nat] /\ \A c \in Credits : balance'[c] <= InitialAmount[c]
      <3>. SUFFICES ASSUME NEW c \in Credits
                    PROVE  balance[c] - used[c] \in Nat /\ balance[c] - used[c] <= InitialAmount[c]
        BY <1>8
      <3>. QED
        BY <1>1, <1>10
    <2>2. allocated' \in [Orders -> [Credits -> Nat]] /\ freed' \in [Orders -> [Credits -> Nat]]
      BY <1>1, <1>7, <1>8
    <2>3. \A p \in Orders, c \in Credits : freed'[p][c] <= allocated'[p][c]
                                           /\ allocated'[p][c] <= InitialAmount[c]
      <3>. SUFFICES ASSUME NEW p \in Orders, NEW c \in Credits
                    PROVE  freed'[p][c] <= allocated'[p][c] /\ allocated'[p][c] <= InitialAmount[c]
        OBVIOUS
      <3>1. CASE p = o
        <4>1. allocated'[p][c] = used[c] /\ freed'[p][c] = 0
          BY <3>1, <1>1, <1>8, <1>10
        <4>2. balance[c] \in Nat /\ balance[c] <= InitialAmount[c] /\ InitialAmount[c] \in Nat
          BY <1>1
        <4>. QED
          BY <4>1, <4>2, <1>10
      <3>2. CASE p # o
        BY <3>2, <1>1, <1>8
      <3>. QED
        BY <3>1, <3>2
    <2>4. overdue' \subseteq Credits /\ (validating' = NoCheck \/ validating' \in Checked')
      BY <1>8 DEF Wallets, Checked
    <2>. QED
      BY <2>1, <2>2, <2>3, <2>4, <1>9 DEF Wallets
  <1>12. Apart(o)
    BY <1>1, <1>8 DEF Apart
  <1>13. Outstanding(o)' = Available(customer, maximum)
    <2>. DEFINE f == [c \in Credits |-> used[c] - freed[o][c]]
    <2>1. \A c \in Credits : f[c] = used[c]
      BY <1>10
    <2>2. Total(f, Credits) = Total(used, Credits)
      <3>. HIDE DEF f
      <3>. QED
        BY <2>1, <1>3, TotalEqual
    <2>3. allocated'[o] = used /\ freed'[o] = freed[o]
      BY <1>1, <1>8
    <2>4. Outstanding(o)' = Total(f, Credits)
      BY <2>3, Sums DEF OutOf
    <2>. QED
      BY <2>2, <2>4, <1>6
  <1>14. ASSUME CreditConserved PROVE CreditConserved'
    <2>1. \A c \in Credits \ overdue' :
            balance'[c] + (allocated'[o][c] - freed'[o][c])
                = balance[c] + (allocated[o][c] - freed[o][c])
      <3>. SUFFICES ASSUME NEW c \in Credits
                    PROVE  balance'[c] + (allocated'[o][c] - freed'[o][c])
                              = balance[c] + (allocated[o][c] - freed[o][c])
        OBVIOUS
      <3>1. /\ balance'[c] = balance[c] - used[c] /\ allocated'[o][c] = used[c]
            /\ freed'[o][c] = 0 /\ freed[o][c] = 0 /\ allocated[o][c] = 0
            /\ balance[c] \in Nat /\ used[c] \in Nat
        BY <1>1, <1>8, <1>10
      <3>. QED
        BY <3>1
    <2>. QED
      BY <2>1, <1>8, <1>11, <1>12, <1>14, ConservedStep
  <1>. QED
    BY <1>11, <1>12, <1>13, <1>14

LEMMA Released ==
  ASSUME Wallets, NEW o \in Orders, NEW amount \in Nat, amount <= Outstanding(o),
         Release(o, amount)
  PROVE  /\ Wallets'
         /\ Apart(o) /\ allocated' = allocated
         /\ Outstanding(o)' = Outstanding(o) - amount
         /\ CreditConserved => CreditConserved'
  <1>. PICK seq \in SetToSeqs(Credits) :
        LET taken    == [c \in Credits |-> allocated[o][c] - freed[o][c]]
            restored == Shares(seq, taken, amount)
        IN  /\ balance' = [c \in Credits |->
                    Min({InitialAmount[c], balance[c] + restored[c]})]
            /\ creditStatus' = [c \in Credits |->
                    CASE restored[c] = 0 -> creditStatus[c]
                      [] restored[c] > 0 /\ c \in overdue -> "expired"
                      [] OTHER -> StatusFor(c, balance'[c])]
            /\ freed' = [freed EXCEPT ![o] = [c \in Credits |-> freed[o][c] + restored[c]]]
            /\ UNCHANGED <<overdue, allocated, validating>>
    BY DEF Release
  <1>. DEFINE taken == [c \in Credits |-> allocated[o][c] - freed[o][c]]
              restored == Shares(seq, taken, amount)
  <1>1. /\ balance \in [Credits -> Nat] /\ allocated \in [Orders -> [Credits -> Nat]]
        /\ freed \in [Orders -> [Credits -> Nat]]
        /\ \A c \in Credits : balance[c] <= InitialAmount[c] /\ InitialAmount[c] \in Nat
        /\ \A p \in Orders, c \in Credits : freed[p][c] <= allocated[p][c]
                                            /\ allocated[p][c] <= InitialAmount[c]
    BY CreditsAssumption DEF Wallets
  <1>2. \A c \in Credits : taken[c] = allocated[o][c] - freed[o][c] /\ taken[c] \in Nat
    <2>. SUFFICES ASSUME NEW c \in Credits PROVE allocated[o][c] - freed[o][c] \in Nat
      OBVIOUS
    <2>1. allocated[o][c] \in Nat /\ freed[o][c] \in Nat /\ freed[o][c] <= allocated[o][c]
      BY <1>1
    <2>. QED
      BY <2>1
  <1>3. Outstanding(o) = Total(taken, Credits)
    BY DEF Outstanding
  <1>4. /\ \A c \in Credits : restored[c] \in Nat /\ restored[c] <= taken[c]
        /\ Total(restored, Credits) = amount
    <2>. HIDE DEF taken
    <2>. QED
      BY <1>2, <1>3, SharesFit
  <1>5. /\ balance' = [c \in Credits |-> Min({InitialAmount[c], balance[c] + restored[c]})]
        /\ freed' = [freed EXCEPT ![o] = [c \in Credits |-> freed[o][c] + restored[c]]]
        /\ overdue' = overdue /\ allocated' = allocated /\ validating' = validating
    OBVIOUS
  <1>6. creditStatus' \in [Credits -> {"active", "used", "expired"}]
    <2>1. creditStatus \in [Credits -> {"active", "used", "expired"}]
      BY DEF Wallets
    <2>2. creditStatus' = [c \in Credits |->
                    CASE restored[c] = 0 -> creditStatus[c]
                      [] restored[c] > 0 /\ c \in overdue -> "expired"
                      [] OTHER -> StatusFor(c, balance'[c])]
      OBVIOUS
    <2>. HIDE DEF restored
    <2>. QED
      BY <2>1, <2>2, <1>4 DEF StatusFor
  <1>. HIDE DEF restored, taken
  <1>7. \A c \in Credits :
            /\ balance'[c] = IF InitialAmount[c] <= balance[c] + restored[c]
                             THEN InitialAmount[c] ELSE balance[c] + restored[c]
            /\ freed'[o][c] = freed[o][c] + restored[c]
            /\ freed'[o][c] \in Nat /\ freed'[o][c] <= allocated[o][c]
            /\ balance'[c] \in Nat /\ balance'[c] <= InitialAmount[c]
    <2>. SUFFICES ASSUME NEW c \in Credits
                  PROVE  /\ balance'[c] = IF InitialAmount[c] <= balance[c] + restored[c]
                                          THEN InitialAmount[c] ELSE balance[c] + restored[c]
                         /\ freed'[o][c] = freed[o][c] + restored[c]
                         /\ freed'[o][c] \in Nat /\ freed'[o][c] <= allocated[o][c]
                         /\ balance'[c] \in Nat /\ balance'[c] <= InitialAmount[c]
      OBVIOUS
    <2>1. /\ restored[c] \in Nat /\ restored[c] <= taken[c]
          /\ taken[c] = allocated[o][c] - freed[o][c]
          /\ allocated[o][c] \in Nat /\ freed[o][c] \in Nat /\ balance[c] \in Nat
          /\ InitialAmount[c] \in Nat
      BY <1>1, <1>2, <1>4
    <2>2. balance'[c] = Min({InitialAmount[c], balance[c] + restored[c]})
      BY <1>5
    <2>3. balance[c] + restored[c] \in Nat
      BY <2>1
    <2>4. balance'[c] = IF InitialAmount[c] <= balance[c] + restored[c]
                        THEN InitialAmount[c] ELSE balance[c] + restored[c]
      BY <2>1, <2>2, <2>3, MinOfTwo
    <2>5. freed'[o][c] = freed[o][c] + restored[c]
      BY <1>1, <1>5
    <2>. QED
      BY <2>1, <2>4, <2>5
  <1>8. Apart(o)
    BY <1>1, <1>5 DEF Apart
  <1>9. Wallets'
    <2>1. balance' \in [Credits -> Nat]
      <3>1. balance' = [c \in Credits |-> balance'[c]]
        BY <1>5
      <3>. QED
        BY <3>1, <1>7
    <2>2. freed' \in [Orders -> [Credits -> Nat]]
      <3>1. [c \in Credits |-> freed[o][c] + restored[c]] \in [Credits -> Nat]
        <4>. SUFFICES ASSUME NEW c \in Credits PROVE freed[o][c] + restored[c] \in Nat
          OBVIOUS
        <4>. QED
          BY <1>7
      <3>. QED
        BY <3>1, <1>1, <1>5
    <2>3. \A p \in Orders, c \in Credits : freed'[p][c] <= allocated'[p][c]
                                           /\ allocated'[p][c] <= InitialAmount[c]
      BY <1>1, <1>5, <1>7, <1>8 DEF Apart
    <2>4. overdue' \subseteq Credits /\ (validating' = NoCheck \/ validating' \in Checked')
      BY <1>5 DEF Wallets, Checked
    <2>. QED
      BY <2>1, <2>2, <2>3, <2>4, <1>1, <1>5, <1>6, <1>7 DEF Wallets
  <1>10. Outstanding(o)' = Outstanding(o) - amount
    <2>. DEFINE rest == [c \in Credits |-> allocated[o][c] - freed'[o][c]]
    <2>1. Outstanding(o)' = Total(rest, Credits)
      BY <1>5, Sums DEF OutOf
    <2>2. \A c \in Credits : taken[c] \in Int /\ restored[c] \in Int
                             /\ rest[c] = taken[c] - restored[c]
      <3>. SUFFICES ASSUME NEW c \in Credits
                    PROVE  taken[c] \in Int /\ restored[c] \in Int
                           /\ allocated[o][c] - freed'[o][c] = taken[c] - restored[c]
        OBVIOUS
      <3>1. allocated[o][c] \in Nat /\ freed[o][c] \in Nat /\ restored[c] \in Nat
        BY <1>1, <1>4
      <3>2. taken[c] = allocated[o][c] - freed[o][c] /\ freed'[o][c] = freed[o][c] + restored[c]
        BY <1>2, <1>7
      <3>. QED
        BY <3>1, <3>2
    <2>. HIDE DEF rest
    <2>3. Total(rest, Credits) = Total(taken, Credits) - Total(restored, Credits)
      BY <2>2, CreditsAssumption, TotalMinus
    <2>. QED
      BY <2>1, <2>3, <1>3, <1>4
  <1>11. ASSUME CreditConserved PROVE CreditConserved'
    <2>1. \A c \in Credits \ overdue' :
            balance'[c] + (allocated'[o][c] - freed'[o][c])
                = balance[c] + (allocated[o][c] - freed[o][c])
      <3>. SUFFICES ASSUME NEW c \in Credits, c \notin overdue
                    PROVE  balance'[c] + (allocated'[o][c] - freed'[o][c])
                              = balance[c] + (allocated[o][c] - freed[o][c])
        BY <1>5
      <3>1. balance[c] + Used(allocated, freed, c) = InitialAmount[c]
        BY <1>11, Sums
      <3>2. allocated[o][c] - freed[o][c] <= Used(allocated, freed, c)
        BY UsedCovers
      <3>3. Used(allocated, freed, c) \in Int
        BY <1>8, <1>9, UsedChanges
      <3>4. restored[c] \in Nat /\ restored[c] <= allocated[o][c] - freed[o][c]
        <4>1. restored[c] <= taken[c] /\ taken[c] = allocated[o][c] - freed[o][c]
          BY <1>2, <1>4
        <4>. QED
          BY <4>1, <1>4
      <3>7. /\ allocated[o][c] \in Nat /\ freed[o][c] \in Nat /\ balance[c] \in Nat
            /\ InitialAmount[c] \in Nat
        BY <1>1
      <3>8. balance[c] + restored[c] <= InitialAmount[c]
        BY <3>1, <3>2, <3>3, <3>4, <3>7
      <3>5. balance'[c] = balance[c] + restored[c]
        <4>1. balance'[c] = IF InitialAmount[c] <= balance[c] + restored[c]
                            THEN InitialAmount[c] ELSE balance[c] + restored[c]
          BY <1>7
        <4>2. balance[c] + restored[c] \in Nat
          BY <3>4, <3>7
        <4>. QED
          BY <4>1, <4>2, <3>7, <3>8
      <3>6. allocated'[o][c] = allocated[o][c] /\ freed'[o][c] = freed[o][c] + restored[c]
        BY <1>5, <1>7
      <3>. QED
        BY <3>4, <3>5, <3>6, <3>7
    <2>. QED
      BY <2>1, <1>5, <1>8, <1>9, <1>11, ConservedStep
  <1>. QED
    BY <1>5, <1>8, <1>9, <1>10, <1>11

\* The time of a credit passes, and validate() reads and saves a credit past its time.
CheckStep ==
    \/ \E c \in Credits : CreditExpires(c) \/ ReadOverdue(c)
    \/ SaveOverdue

LEMMA CheckedStep ==
  ASSUME Wallets, CheckStep
  PROVE  /\ Wallets'
         /\ allocated' = allocated /\ freed' = freed
         /\ CreditConserved => CreditConserved'
  <1>1. allocated' = allocated /\ freed' = freed
    BY DEF CheckStep, CreditExpires, ReadOverdue, SaveOverdue, allocationVars
  <1>2. ASSUME NEW c \in Credits, CreditExpires(c)
        PROVE  Wallets' /\ (CreditConserved => CreditConserved')
    <2>1. balance' = balance /\ overdue' = overdue \cup {c} /\ creditStatus' = creditStatus
          /\ validating' = validating
      BY <1>2 DEF CreditExpires
    <2>2. Wallets'
      BY <2>1, <1>1 DEF Wallets, Checked
    <2>. QED
      BY <2>1, <2>2, <1>1, Sums
  <1>3. ASSUME NEW c \in Credits, ReadOverdue(c)
        PROVE  Wallets' /\ (CreditConserved => CreditConserved')
    <2>1. balance' = balance /\ overdue' = overdue /\ creditStatus' = creditStatus
          /\ validating' = <<c, balance[c]>> /\ c \in overdue
      BY <1>3 DEF ReadOverdue, creditVars
    <2>2. validating' \in Checked'
      <3>1. balance[c] \in 0 .. InitialAmount[c]
        <4>1. balance[c] \in Nat /\ balance[c] <= InitialAmount[c] /\ InitialAmount[c] \in Nat
          BY CreditsAssumption DEF Wallets
        <4>. QED
          BY <4>1
      <3>. QED
        BY <2>1, <3>1 DEF Checked
    <2>3. Wallets'
      BY <2>1, <2>2, <1>1 DEF Wallets
    <2>. QED
      BY <2>1, <2>3, <1>1, Sums
  <1>4. ASSUME SaveOverdue
        PROVE  Wallets' /\ (CreditConserved => CreditConserved')
    <2>1. /\ balance' = [balance EXCEPT ![validating[1]] = validating[2]]
          /\ creditStatus' = [creditStatus EXCEPT ![validating[1]] = "expired"]
          /\ overdue' = overdue /\ validating' = NoCheck /\ validating # NoCheck
      BY <1>4 DEF SaveOverdue
    <2>c. PICK c \in overdue : \E b \in 0 .. InitialAmount[c] : validating = <<c, b>>
      BY <2>1 DEF Wallets, Checked
    <2>2. PICK b \in 0 .. InitialAmount[c] : validating = <<c, b>>
      BY <2>c
    <2>3. c \in Credits /\ InitialAmount[c] \in Nat /\ overdue \subseteq Credits
      BY CreditsAssumption DEF Wallets
    <2>4. /\ balance' = [balance EXCEPT ![c] = b]
          /\ creditStatus' = [creditStatus EXCEPT ![c] = "expired"]
          /\ b \in Nat /\ b <= InitialAmount[c]
      BY <2>1, <2>2, <2>3
    <2>5. Wallets'
      BY <2>1, <2>3, <2>4, <1>1 DEF Wallets
    <2>6. \A d \in Credits \ overdue : balance'[d] = balance[d]
      BY <2>2, <2>4 DEF Wallets
    <2>. QED
      BY <2>1, <2>5, <2>6, <1>1, Sums
  <1>. QED
    BY <1>1, <1>2, <1>3, <1>4 DEF CheckStep

-----------------------------------------------------------------------------
(* One order at a time *)

Safe(o) ==
    /\ Stage(o) /\ Fresh(o) /\ Outstanding(o) = Held(o)
    /\ Priced(o) /\ Paying(o)

\* A step of one order leaves the rows, the requests and the credits of the others alone.
OneOrder(o) ==
    /\ \A p \in Orders \ {o} : order'[p] = order[p] /\ request'[p] = request[p]
    /\ Apart(o)

LEMMA OthersKeep ==
  ASSUME NEW o \in Orders, OneOrder(o), NEW p \in Orders \ {o}, Safe(p)
  PROVE  Safe(p)'
  <1>1. order'[p] = order[p] /\ request'[p] = request[p]
        /\ allocated'[p] = allocated[p] /\ freed'[p] = freed[p]
    BY DEF OneOrder, Apart
  <1>2. Outstanding(p)' = Outstanding(p)
    BY ApartIsSame DEF OneOrder
  <1>3. Stage(p)' /\ Fresh(p)'
    BY <1>1 DEF Safe, Stage, Fresh, At
  <1>4. Held(p)' = Held(p)
    BY <1>1 DEF Held, At, Exists
  <1>5. Priced(p)' /\ Paying(p)'
    BY <1>1 DEF Safe, Priced, Paying, At, TooSmall
  <1>. QED
    BY <1>2, <1>3, <1>4, <1>5 DEF Safe

LEMMA QuietWallet ==
  ASSUME UNCHANGED walletVars
  PROVE  /\ Wallets <=> Wallets'
         /\ allocated' = allocated /\ freed' = freed
         /\ \A o \in Orders : Apart(o) /\ Outstanding(o)' = Outstanding(o)
  BY Sums DEF walletVars, creditVars, allocationVars, Wallets, Checked, Apart

LEMMA Beginning ==
  ASSUME Types, Wallets, NEW o \in Orders, Safe(o),
         CreatePending(o) \/ ReadCounter(o) \/ SaveCounter(o)
  PROVE  Types' /\ OneOrder(o) /\ Safe(o)' /\ UNCHANGED walletVars
  <1>1. UNCHANGED walletVars /\ order' = order
    BY DEF CreatePending, ReadCounter, SaveCounter
  <1>2. allocated' = allocated /\ freed' = freed /\ Apart(o) /\ Outstanding(o)' = Outstanding(o)
    BY <1>1, QuietWallet
  <1>3. BeforeCredit(Cart[o], TermsOf(o), settings) \in Nat
    BY PricesAreNatural DEF Types
  <1>. USE DEF Types, Works, Rows, Pcs, At
  <1>4. CASE CreatePending(o)
    <2>1. request' = [request EXCEPT ![o].pc = "count",
                      ![o].before = BeforeCredit(Cart[o], TermsOf(o), settings)]
          /\ At(o, "idle") /\ order[o].status = "absent"
      BY <1>4 DEF CreatePending
    <2>2. Types'
      <3>1. UNCHANGED <<settings, coupon, lockedBy, counter>>
        BY <1>4 DEF CreatePending, couponVars
      <3>2. request' \in [Orders -> Works]
        BY <1>3, <2>1
      <3>. QED
        BY <1>1, <3>1, <3>2
    <2>3. OneOrder(o)
      BY <1>1, <1>2, <2>1 DEF OneOrder
    <2>4. /\ request'[o].pc = "count" /\ request'[o].taken = request[o].taken
          /\ request[o] = Idle
      BY <2>1 DEF Safe, Stage
    <2>5. Stage(o)' /\ Fresh(o)'
      BY <1>1, <1>2, <2>1, <2>4 DEF Safe, Stage, Fresh, Idle, Early, Late, Ending
    <2>6. Held(o) = 0 /\ Held(o)' = 0
      BY <2>1, <2>4 DEF Held, Late, Exists
    <2>7. Priced(o)' /\ Paying(o)'
      BY <1>1, <2>1, <2>4 DEF Safe, Priced, Paying, Late
    <2>. QED
      BY <1>1, <1>2, <2>2, <2>3, <2>5, <2>6, <2>7 DEF Safe
  <1>5. CASE ReadCounter(o)
    <2>1. request' = [request EXCEPT ![o].pc = "counted", ![o].seen = counter]
          /\ At(o, "count")
      BY <1>5 DEF ReadCounter
    <2>2. Types'
      <3>1. UNCHANGED <<settings, coupon, lockedBy, counter>>
        BY <1>5 DEF ReadCounter, couponVars
      <3>2. request' \in [Orders -> Works]
        BY <2>1
      <3>. QED
        BY <1>1, <3>1, <3>2
    <2>3. OneOrder(o)
      BY <1>1, <1>2, <2>1 DEF OneOrder
    <2>4. request'[o].pc = "counted" /\ request'[o].taken = request[o].taken
      BY <2>1
    <2>5. Stage(o)' /\ Fresh(o)'
      BY <1>1, <1>2, <2>1, <2>4 DEF Safe, Stage, Fresh, Early, Late, Ending
    <2>6. Held(o) = 0 /\ Held(o)' = 0
      BY <2>1, <2>4 DEF Held, Late, Exists
    <2>7. Priced(o)' /\ Paying(o)'
      BY <1>1, <2>1, <2>4 DEF Safe, Priced, Paying, Late
    <2>. QED
      BY <1>1, <1>2, <2>2, <2>3, <2>5, <2>6, <2>7 DEF Safe
  <1>6. CASE SaveCounter(o)
    <2>1. /\ counter' = request[o].seen + 1
          /\ request' = [request EXCEPT
                ![o].pc = IF Cart[o].useCredit /\ ~TermsOf(o).minimumCharge
                          THEN "credit" ELSE Proceed(o),
                ![o].seen = counter']
          /\ At(o, "counted") /\ Proceed(o) \in {"lock", "insert"}
      BY <1>6 DEF SaveCounter, Proceed
    <2>2. Types'
      BY <1>1, <1>6, <2>1 DEF SaveCounter, couponVars
    <2>3. OneOrder(o)
      BY <1>1, <1>2, <2>1 DEF OneOrder
    <2>4. /\ request'[o].pc \in {"credit", "lock", "insert"}
          /\ request'[o].taken = request[o].taken /\ request'[o].before = request[o].before
          /\ request[o].taken = 0
      BY <2>1 DEF Safe, Stage, Early
    <2>5. Stage(o)' /\ Fresh(o)'
      BY <1>1, <1>2, <2>1, <2>4 DEF Safe, Stage, Fresh, Early, Late, Ending
    <2>6. Held(o) = 0 /\ Held(o)' = 0
      BY <2>1, <2>4 DEF Held, Late, Exists
    <2>7. Priced(o)' /\ Paying(o)'
      BY <1>1, <2>1, <2>4 DEF Safe, Priced, Paying, Late
    <2>. QED
      BY <1>1, <1>2, <2>2, <2>3, <2>5, <2>6, <2>7 DEF Safe
  <1>. QED
    BY <1>4, <1>5, <1>6

\* What a step that takes credit or gives it back keeps.
Settled(o) ==
    /\ Types' /\ Wallets' /\ OneOrder(o) /\ Safe(o)'
    /\ CreditConserved => CreditConserved'

LEMMA Reserving ==
  ASSUME Types, Wallets, NEW o \in Orders, Safe(o), ReserveCredit(o)
  PROVE  Settled(o)
  <1>. DEFINE before == request[o].before
              taken == Available(Cart[o].customer, before)
  <1>1. /\ At(o, "credit")
        /\ IF before > 0 THEN ReserveBalance(o, Cart[o].customer, before) ELSE UNCHANGED walletVars
        /\ request' = [request EXCEPT
                ![o].pc = IF taken > 0 /\ TooSmall(o, before - taken) THEN "trim" ELSE Proceed(o),
                ![o].taken = taken]
        /\ order' = order /\ UNCHANGED <<settings, coupon, lockedBy, counter>>
        /\ Proceed(o) \in {"lock", "insert"}
    BY DEF ReserveCredit, Proceed, couponVars
  <1>2. request[o] \in Works /\ order[o] \in Rows /\ before \in Nat
    BY DEF Types, Works
  <1>3. taken \in Nat /\ taken <= before
    BY <1>2, AvailableFits
  <1>4. Outstanding(o) = 0 /\ \A c \in Credits : allocated[o][c] = 0
    <2>1. request[o].pc = "credit" /\ order[o].status = "absent"
      BY <1>1 DEF At, Safe, Stage, Early
    <2>2. Held(o) = 0
      BY <2>1 DEF Held, Late, At, Exists
    <2>. QED
      BY <2>1, <2>2 DEF Safe, Fresh, Early
  <1>5. /\ Wallets' /\ Apart(o) /\ Outstanding(o)' = taken
        /\ CreditConserved => CreditConserved'
    <2>1. CASE before > 0
      BY <2>1, <1>1, <1>2, <1>4, Reserved
    <2>2. CASE before = 0
      <3>1. UNCHANGED walletVars
        BY <2>2, <1>1
      <3>2. taken = 0
        BY <2>2, <1>3
      <3>3. Wallets' /\ Apart(o) /\ Outstanding(o)' = Outstanding(o)
        BY <3>1, QuietWallet
      <3>4. CreditConserved => CreditConserved'
        BY <3>1, Sums DEF walletVars, creditVars, allocationVars
      <3>. QED
        BY <3>2, <3>3, <3>4, <1>4
    <2>. QED
      BY <2>1, <2>2, <1>2
  <1>. HIDE DEF before, taken
  <1>6. /\ request'[o].pc \in {"trim", "lock", "insert"}
        /\ request'[o].taken = taken /\ request'[o].before = request[o].before
        /\ request'[o].pc = "trim" <=> taken > 0 /\ TooSmall(o, before - taken)
        /\ request' \in [Orders -> Works]
    BY <1>1, <1>2, <1>3 DEF Types, Works, Pcs
  <1>7. Types'
    BY <1>1, <1>6 DEF Types, Rows
  <1>8. OneOrder(o)
    BY <1>1, <1>5 DEF OneOrder, Types
  <1>9. Stage(o)' /\ Fresh(o)'
    BY <1>1, <1>6 DEF Safe, Stage, Fresh, At, Early, Late, Ending
  <1>10. Held(o)' = taken
    BY <1>6 DEF Held, Late, At
  <1>11. Priced(o)'
    <2>1. request[o].before = before
      BY DEF before
    <2>. QED
      BY <2>1, <1>2, <1>3, <1>6 DEF Priced, Late, At, TooSmall
  <1>12. Paying(o)'
    BY <1>1 DEF Safe, Paying
  <1>. QED
    BY <1>5, <1>7, <1>8, <1>9, <1>10, <1>11, <1>12 DEF Settled, Safe

LEMMA Trimming ==
  ASSUME Types, Wallets, NEW o \in Orders, Safe(o), TrimCredit(o)
  PROVE  Settled(o)
  <1>. DEFINE before == request[o].before
              taken == request[o].taken
              left == MinimumCharge - (before - taken)
              excess == Min({taken, left})
  <1>1. /\ request[o].pc = "trim" /\ Release(o, excess)
        /\ request' = [request EXCEPT ![o].pc = Proceed(o), ![o].taken = @ - excess]
        /\ order' = order /\ UNCHANGED <<settings, coupon, lockedBy, counter>>
        /\ Proceed(o) \in {"lock", "insert"}
    BY DEF TrimCredit, Proceed, couponVars, At
  <1>2. request[o] \in Works /\ order[o] \in Rows /\ before \in Nat /\ taken \in Nat
    BY DEF Types, Works
  <1>3. /\ taken <= before /\ Cart[o].method = "Pix"
        /\ before - taken > 0 /\ before - taken < MinimumCharge
    BY <1>1 DEF Safe, Priced, TooSmall, At, Late
  <1>4. excess \in Nat /\ excess <= taken /\ (excess = taken \/ excess = left)
    <2>1. left \in Nat
      BY <1>2, <1>3 DEF MinimumCharge
    <2>. HIDE DEF left, taken
    <2>2. excess = IF taken <= left THEN taken ELSE left
      BY <2>1, <1>2, MinOfTwo
    <2>. QED
      BY <2>1, <2>2, <1>2
  <1>5. Outstanding(o) = taken
    BY <1>1 DEF Safe, Held, Late, At
  <1>6. /\ Wallets' /\ Apart(o) /\ Outstanding(o)' = taken - excess
        /\ CreditConserved => CreditConserved'
    <2>. HIDE DEF excess, taken
    <2>. QED
      BY <1>1, <1>4, <1>5, Released
  <1>. HIDE DEF excess
  <1>7. /\ request'[o].pc \in {"lock", "insert"}
        /\ request'[o].taken = taken - excess /\ request'[o].before = before
        /\ request' \in [Orders -> Works]
    <2>1. taken - excess \in Nat
      BY <1>2, <1>4
    <2>. HIDE DEF taken, before
    <2>2. request'[o] = [request[o] EXCEPT !.pc = Proceed(o), !.taken = taken - excess]
      BY <1>1 DEF Types, taken
    <2>3. request'[o] \in Works
      <3>1. Proceed(o) \in Pcs /\ request[o] \in Works
        BY <1>1, <1>2 DEF Pcs
      <3>. HIDE DEF excess
      <3>. QED
        BY <2>1, <2>2, <3>1 DEF Works
    <2>. QED
      BY <2>2, <2>3, <1>1, <1>2 DEF Types, Works, before
  <1>8. Types'
    BY <1>1, <1>7 DEF Types, Rows
  <1>9. OneOrder(o)
    BY <1>1, <1>6 DEF OneOrder, Types
  <1>10. Stage(o)' /\ Fresh(o)'
    BY <1>1, <1>7 DEF Safe, Stage, Fresh, At, Early, Late, Ending
  <1>11. Held(o)' = taken - excess
    BY <1>7 DEF Held, Late, At
  <1>12. Priced(o)'
    <2>1. taken - excess <= before
      BY <1>2, <1>3, <1>4
    <2>2. CASE excess = taken
      BY <2>1, <2>2, <1>2, <1>7 DEF Priced, Late, At
    <2>3. CASE excess = left
      <3>1. before - (taken - excess) = MinimumCharge
        BY <2>3, <1>2, <1>4 DEF MinimumCharge
      <3>. QED
        BY <2>1, <3>1, <1>7 DEF Priced, Late, At, TooSmall, MinimumCharge
    <2>. QED
      BY <2>2, <2>3, <1>4
  <1>13. Paying(o)'
    BY <1>1 DEF Safe, Paying
  <1>. QED
    BY <1>6, <1>8, <1>9, <1>10, <1>11, <1>12, <1>13 DEF Settled, Safe

\* All that is off the balance for the order is given back, or there was nothing.
LEMMA ReleasedAll ==
  ASSUME Wallets, NEW o \in Orders, NEW amount \in Nat, Outstanding(o) = amount,
         IF amount > 0 THEN Release(o, amount) ELSE UNCHANGED walletVars
  PROVE  /\ Wallets' /\ Apart(o) /\ Outstanding(o)' = 0
         /\ allocated' = allocated
         /\ CreditConserved => CreditConserved'
  <1>1. CASE amount > 0
    BY <1>1, Released
  <1>2. CASE amount = 0
    <2>1. CreditConserved => CreditConserved'
      BY <1>2, Sums DEF walletVars, creditVars, allocationVars
    <2>. QED
      BY <2>1, <1>2, QuietWallet
  <1>. QED
    BY <1>1, <1>2

GiveBackSteps(o) ==
    \/ UndoCheckout(o) \/ GiveBack(o)
    \/ RollbackPending(o) /\ At(o, "free")
    \/ DeleteOrder(o) /\ At(o, "deleteFree")

LEMMA GivingBack ==
  ASSUME Types, Wallets, NEW o \in Orders, Safe(o), GiveBackSteps(o)
  PROVE  Settled(o)
  <1>1. request[o] \in Works /\ order[o] \in Rows
    BY DEF Types
  <1>2. PICK amount \in Nat :
          /\ Held(o) = amount
          /\ IF amount > 0 THEN Release(o, amount) ELSE UNCHANGED walletVars
    <2>1. CASE UndoCheckout(o)
      BY <2>1, <1>1 DEF UndoCheckout, At, Held, Works
    <2>2. CASE GiveBack(o)
      BY <2>2, <1>1 DEF GiveBack, At, Held, Rows, Late
    <2>3. CASE RollbackPending(o) /\ At(o, "free")
      BY <2>3, <1>1 DEF RollbackPending, At, Held, Works, SetStatus, DeleteRow
    <2>4. CASE DeleteOrder(o) /\ At(o, "deleteFree")
      BY <2>4, <1>1 DEF DeleteOrder, At, Held, Rows, Late, DeleteRow
    <2>. QED
      BY <2>1, <2>2, <2>3, <2>4 DEF GiveBackSteps
  <1>3. /\ Wallets' /\ Apart(o) /\ Outstanding(o)' = 0 /\ allocated' = allocated
        /\ CreditConserved => CreditConserved'
    BY <1>2, ReleasedAll DEF Safe
  <1>4. ASSUME request' \in [Orders -> Works], order' \in [Orders -> Rows],
               UNCHANGED <<settings, coupon, lockedBy, counter>>,
               \A p \in Orders \ {o} : order'[p] = order[p] /\ request'[p] = request[p],
               Stage(o)', Fresh(o)', Held(o)' = 0, Priced(o)', Paying(o)'
        PROVE  Settled(o)
    BY <1>3, <1>4 DEF Settled, Safe, Types, OneOrder
  <1>. USE DEF At, Goto, End, Types
  <1>5. CASE UndoCheckout(o)
    <2>1. /\ request' = [request EXCEPT ![o] = Idle]
          /\ order' = [order EXCEPT ![o].status = "gone"]
          /\ UNCHANGED <<settings, coupon, lockedBy, counter>>
      BY <1>5 DEF UndoCheckout, couponVars
    <2>2. request'[o] = Idle /\ order'[o].status = "gone"
      BY <2>1, <1>1 DEF Rows
    <2>3. request' \in [Orders -> Works] /\ order' \in [Orders -> Rows]
      BY <2>1, <1>1 DEF Works, Rows, Pcs, Statuses, Idle
    <2>. QED
      BY <2>1, <2>2, <2>3, <1>4
         DEF Stage, Fresh, Held, Priced, Paying, Exists, Early, Late, Ending, Idle
  <1>6. CASE GiveBack(o)
    <2>1. /\ request' = [request EXCEPT ![o] = IF order[o].credit > 0
                                               THEN [request[o] EXCEPT !.pc = "clear"] ELSE Idle]
          /\ order' = order /\ request[o].pc = "giveBack"
          /\ UNCHANGED <<settings, coupon, lockedBy, counter>>
      BY <1>6 DEF GiveBack, couponVars
    <2>2. /\ request'[o] = IF order[o].credit > 0 THEN [request[o] EXCEPT !.pc = "clear"] ELSE Idle
          /\ order[o].credit \in Nat
          /\ order[o].status \notin {"absent", "gone", "pending", "expired", "paid"}
      BY <2>1, <1>1 DEF Rows, Safe, Stage, Ending
    <2>3. request' \in [Orders -> Works] /\ order' \in [Orders -> Rows]
      BY <2>1, <2>2, <1>1 DEF Works, Pcs, Idle
    <2>4. Held(o)' = 0
      BY <2>1, <2>2, <1>1 DEF Held, Exists, Late, Idle, Works
    <2>. QED
      BY <2>1, <2>2, <2>3, <2>4, <1>1, <1>4
         DEF Stage, Fresh, Priced, Paying, Early, Late, Ending, Idle, Works
  <1>7. CASE RollbackPending(o) /\ At(o, "free")
    <2>1. /\ request' = [request EXCEPT ![o] = Idle]
          /\ order' = order /\ request[o].pc = "free"
          /\ UNCHANGED <<settings, coupon, lockedBy, counter>>
      BY <1>7 DEF RollbackPending, couponVars, SetStatus, DeleteRow
    <2>2. request'[o] = Idle /\ order[o].status = "gone"
      BY <2>1 DEF Safe, Stage
    <2>3. request' \in [Orders -> Works]
      BY <2>1, <1>1 DEF Works, Pcs, Idle
    <2>. QED
      BY <2>1, <2>2, <2>3, <1>4
         DEF Stage, Fresh, Held, Priced, Paying, Exists, Early, Late, Ending, Idle
  <1>8. CASE DeleteOrder(o) /\ At(o, "deleteFree")
    <2>1. /\ request' = [request EXCEPT ![o] = [request[o] EXCEPT !.pc = "deleteRow"]]
          /\ order' = order /\ request[o].pc = "deleteFree"
          /\ UNCHANGED <<settings, coupon, lockedBy, counter>>
      BY <1>8 DEF DeleteOrder, couponVars, DeleteRow
    <2>2. /\ request'[o].pc = "deleteRow" /\ request' \in [Orders -> Works]
          /\ order[o].status \notin {"absent", "gone", "pending", "expired", "paid"}
      BY <2>1, <1>1 DEF Works, Pcs, Safe, Stage, Ending
    <2>. QED
      BY <2>1, <2>2, <1>4
         DEF Stage, Fresh, Held, Priced, Paying, Early, Late, Ending
  <1>. QED
    BY <1>5, <1>6, <1>7, <1>8 DEF GiveBackSteps

\* A step of an order that leaves the credits alone.
Quiet(o) ==
    /\ UNCHANGED walletVars
    /\ UNCHANGED <<settings, coupon, counter>>
    /\ lockedBy' \in [Coupons -> SUBSET Orders]

LEMMA QuietStep ==
  ASSUME Types, Wallets, NEW o \in Orders, Safe(o), Quiet(o),
         NEW row \in Rows, order' = [order EXCEPT ![o] = row],
         NEW work \in Works, request' = [request EXCEPT ![o] = work],
         order'[o] = row /\ request'[o] = work =>
            Stage(o)' /\ Fresh(o)' /\ Held(o)' = Held(o) /\ Priced(o)' /\ Paying(o)'
  PROVE  Settled(o)
  <1>1. order'[o] = row /\ request'[o] = work
    BY DEF Types
  <1>2. /\ Wallets' /\ Apart(o) /\ Outstanding(o)' = Outstanding(o)
        /\ CreditConserved => CreditConserved'
    <2>1. UNCHANGED walletVars
      BY DEF Quiet
    <2>2. CreditConserved => CreditConserved'
      BY <2>1, Sums DEF walletVars, creditVars, allocationVars
    <2>. QED
      BY <2>1, <2>2, QuietWallet
  <1>3. Types'
    BY DEF Types, Quiet
  <1>4. OneOrder(o)
    BY <1>2 DEF OneOrder, Types
  <1>. QED
    BY <1>1, <1>2, <1>3, <1>4 DEF Settled, Safe

LEMMA LockTypes ==
  ASSUME Types, NEW o \in Orders
  PROVE  /\ Unlock(o) => lockedBy' \in [Coupons -> SUBSET Orders]
         /\ UNCHANGED lockedBy => lockedBy' \in [Coupons -> SUBSET Orders]
         /\ lockedBy' = [lockedBy EXCEPT ![CouponOf(o)] = @ \cup {o}]
                => lockedBy' \in [Coupons -> SUBSET Orders]
  BY DEF Types, Unlock

LEMMA NoRowType == NoRow \in Rows
  BY DEF NoRow, Rows, Statuses

Placing(o) ==
    LockCoupon(o) \/ CheckAgain(o) \/ InsertOrder(o) \/ ReserveOrder(o) \/ EraseOrder(o)

LEMMA PlacingStep ==
  ASSUME Types, Wallets, NEW o \in Orders, Safe(o), Placing(o)
  PROVE  Settled(o)
  <1>1. request[o] \in Works /\ order[o] \in Rows
    BY DEF Types
  <1>2. Quiet(o)
    <2>1. CASE LockCoupon(o)
      BY <2>1, LockTypes DEF LockCoupon, Quiet
    <2>2. CASE CheckAgain(o)
      BY <2>2, LockTypes DEF CheckAgain, Quiet
    <2>3. CASE InsertOrder(o)
      BY <2>3, LockTypes DEF InsertOrder, Quiet
    <2>4. CASE ReserveOrder(o)
      BY <2>4, LockTypes DEF ReserveOrder, Quiet
    <2>5. CASE EraseOrder(o)
      BY <2>5, LockTypes DEF EraseOrder, Quiet
    <2>. QED
      BY <2>1, <2>2, <2>3, <2>4, <2>5 DEF Placing
  <1>. DEFINE to(pc) == [request[o] EXCEPT !.pc = pc]
  <1>3. /\ \A pc \in Pcs : to(pc) \in Works
        /\ Idle \in Works
        /\ order = [order EXCEPT ![o] = order[o]]
        /\ \A pc : pc # "idle" /\ Goto(o, pc) => request' = [request EXCEPT ![o] = to(pc)]
        /\ End(o) => request' = [request EXCEPT ![o] = Idle]
    BY <1>1 DEF Works, Idle, Pcs, Types, Goto, End
  <1>4. CASE LockCoupon(o)
    <2>1. /\ request[o].pc = "lock" /\ Goto(o, "check") /\ order' = [order EXCEPT ![o] = order[o]]
      BY <1>3, <1>4 DEF LockCoupon, At
    <2>2. request' = [request EXCEPT ![o] = to("check")] /\ to("check") \in Works
      BY <1>3, <2>1 DEF Pcs
    <2>3. /\ to("check").pc = "check" /\ to("check").taken = request[o].taken
          /\ to("check").before = request[o].before
      BY <1>1 DEF Works
    <2>. HIDE DEF to
    <2>4. order'[o] = order[o] /\ request'[o] = to("check") =>
            Stage(o)' /\ Fresh(o)' /\ Held(o)' = Held(o) /\ Priced(o)' /\ Paying(o)'
      BY <1>1, <2>1, <2>3 DEF Safe, Stage, Fresh, Held, Priced, Paying, At, Early, Late, Ending, TooSmall
    <2>. QED
      BY <1>1, <1>2, <2>1, <2>2, <2>4, QuietStep
  <1>5. CASE CheckAgain(o)
    <2>1. PICK pc \in {"insert", "undo"} : Goto(o, pc)
      BY <1>5 DEF CheckAgain
    <2>2. request[o].pc = "check" /\ order' = [order EXCEPT ![o] = order[o]]
      BY <1>3, <1>5 DEF CheckAgain, At
    <2>3. request' = [request EXCEPT ![o] = to(pc)] /\ to(pc) \in Works
      BY <1>3, <2>1 DEF Pcs
    <2>4. to(pc).pc = pc /\ to(pc).taken = request[o].taken /\ to(pc).before = request[o].before
      BY <1>1 DEF Works
    <2>. HIDE DEF to
    <2>5. order'[o] = order[o] /\ request'[o] = to(pc) =>
            Stage(o)' /\ Fresh(o)' /\ Held(o)' = Held(o) /\ Priced(o)' /\ Paying(o)'
      BY <1>1, <2>1, <2>2, <2>4 DEF Safe, Stage, Fresh, Held, Priced, Paying, At, Early, Late, Ending, TooSmall
    <2>. QED
      BY <1>1, <1>2, <2>2, <2>3, <2>5, QuietStep
  <1>6. CASE InsertOrder(o)
    <2>. DEFINE row == [NoRow EXCEPT !.status = "pending", !.number = request[o].seen,
                                 !.total = TotalOf(o), !.credit = request[o].taken,
                                 !.coupon = CouponOf(o), !.price = request[o].before]
    <2>1. request[o].pc = "insert"
      BY <1>6 DEF InsertOrder, At
    <2>2. CASE Insertable(o)
      <3>1. order' = [order EXCEPT ![o] = row] /\ Goto(o, "stock")
        BY <1>6, <2>2 DEF InsertOrder
      <3>2. request' = [request EXCEPT ![o] = to("stock")] /\ to("stock") \in Works
        BY <1>3, <3>1 DEF Pcs
      <3>3. to("stock").pc = "stock" /\ to("stock").taken = request[o].taken
        BY <1>1 DEF Works
      <3>4. request[o].before \in Nat /\ request[o].taken \in Nat /\ request[o].seen \in Nat
            /\ request[o].taken <= request[o].before
        BY <1>1, <2>1 DEF Safe, Priced, Works, Late
      <3>5. /\ TotalOf(o) \in Nat
            /\ \/ TotalOf(o) = request[o].before - request[o].taken
               \/ TotalOf(o) = MinimumCharge /\ request[o].taken = 0
            /\ Cart[o].method = "Pix" => TotalOf(o) = 0 \/ TotalOf(o) >= MinimumCharge
        BY <3>4, <2>1 DEF Safe, Priced, TotalOf, TooSmall, MinimumCharge, Late
      <3>6. /\ row.status = "pending" /\ row.total = TotalOf(o)
            /\ row.credit = request[o].taken /\ row.price = request[o].before
        BY NoRowType DEF Rows
      <3>7. row \in Rows
        <4>1. "pending" \in Statuses /\ CouponOf(o) \in Coupons \cup {NoCoupon}
          BY CheckoutAssumption DEF Statuses, CouponOf
        <4>. QED
          BY <3>4, <3>5, <4>1, NoRowType DEF Rows
      <3>. HIDE DEF to, row
      <3>8. Held(o) = request[o].taken
        BY <2>1 DEF Held, At, Late
      <3>9. order'[o] = row /\ request'[o] = to("stock") =>
              Stage(o)' /\ Fresh(o)' /\ Held(o)' = request[o].taken /\ Priced(o)'
        BY <3>3, <3>6 DEF Stage, Fresh, Held, Priced, At, Early, Late, Ending
      <3>10. order'[o] = row => Paying(o)'
        BY <3>4, <3>5, <3>6 DEF Paying
      <3>. QED
        BY <1>2, <3>1, <3>2, <3>7, <3>8, <3>9, <3>10, QuietStep
    <2>3. CASE ~Insertable(o)
      <3>1. order' = [order EXCEPT ![o] = order[o]] /\ Goto(o, "undo")
        BY <1>3, <1>6, <2>3 DEF InsertOrder
      <3>2. request' = [request EXCEPT ![o] = to("undo")] /\ to("undo") \in Works
        BY <1>3, <3>1 DEF Pcs
      <3>3. to("undo").pc = "undo" /\ to("undo").taken = request[o].taken
        BY <1>1 DEF Works
      <3>. HIDE DEF to
      <3>4. order'[o] = order[o] /\ request'[o] = to("undo") =>
              Stage(o)' /\ Fresh(o)' /\ Held(o)' = Held(o) /\ Priced(o)' /\ Paying(o)'
        BY <1>1, <2>1, <3>3 DEF Safe, Stage, Fresh, Held, Priced, Paying, At, Early, Late, Ending
      <3>. QED
        BY <1>1, <1>2, <3>1, <3>2, <3>4, QuietStep
    <2>. QED
      BY <2>2, <2>3
  <1>7. CASE ReserveOrder(o)
    <2>1. request[o].pc = "stock" /\ order' = [order EXCEPT ![o] = order[o]]
      BY <1>3, <1>7 DEF ReserveOrder, At
    <2>2. CASE End(o)
      <3>1. request' = [request EXCEPT ![o] = Idle]
        BY <1>3, <2>2
      <3>2. order'[o] = order[o] /\ request'[o] = Idle =>
              Stage(o)' /\ Fresh(o)' /\ Held(o)' = Held(o) /\ Priced(o)' /\ Paying(o)'
        BY <1>1, <2>1
           DEF Safe, Stage, Fresh, Held, Priced, Paying, At, Exists, Early, Late, Ending, Idle
      <3>. QED
        BY <1>1, <1>2, <1>3, <2>1, <3>1, <3>2, QuietStep
    <2>3. CASE Goto(o, "erase")
      <3>1. request' = [request EXCEPT ![o] = to("erase")] /\ to("erase") \in Works
        BY <1>3, <2>3 DEF Pcs
      <3>2. to("erase").pc = "erase" /\ to("erase").taken = request[o].taken
        BY <1>1 DEF Works
      <3>. HIDE DEF to
      <3>3. order'[o] = order[o] /\ request'[o] = to("erase") =>
              Stage(o)' /\ Fresh(o)' /\ Held(o)' = Held(o) /\ Priced(o)' /\ Paying(o)'
        BY <1>1, <2>1, <3>2
           DEF Safe, Stage, Fresh, Held, Priced, Paying, At, Exists, Early, Late, Ending
      <3>. QED
        BY <1>1, <1>2, <2>1, <3>1, <3>3, QuietStep
    <2>. QED
      BY <1>7, <2>2, <2>3 DEF ReserveOrder
  <1>8. CASE EraseOrder(o)
    <2>. DEFINE row == [NoRow EXCEPT !.status = "gone"]
    <2>1. request[o].pc = "erase" /\ order' = [order EXCEPT ![o] = row] /\ Goto(o, "undo")
      BY <1>8 DEF EraseOrder, At
    <2>2. request' = [request EXCEPT ![o] = to("undo")] /\ to("undo") \in Works
      BY <1>3, <2>1 DEF Pcs
    <2>3. to("undo").pc = "undo" /\ to("undo").taken = request[o].taken
      BY <1>1 DEF Works
    <2>4. row \in Rows /\ row.status = "gone"
      BY DEF NoRow, Rows, Statuses
    <2>. HIDE DEF to, row
    <2>5. order'[o] = row /\ request'[o] = to("undo") =>
            Stage(o)' /\ Fresh(o)' /\ Held(o)' = Held(o) /\ Priced(o)' /\ Paying(o)'
      BY <1>1, <2>1, <2>3, <2>4
         DEF Safe, Stage, Fresh, Held, Priced, Paying, At, Early, Late, Ending
    <2>. QED
      BY <1>2, <2>1, <2>2, <2>4, <2>5, QuietStep
  <1>. QED
    BY <1>4, <1>5, <1>6, <1>7, <1>8 DEF Placing

-----------------------------------------------------------------------------
(* The steps that end an order *)

Decided == {"canceled", "stock_conflict", "refunded"}

\* The row changes its status, and the request that does so goes on to pc.
LEMMA StatusStep ==
  ASSUME Types, Wallets, NEW o \in Orders, Safe(o), Quiet(o),
         At(o, "idle"), Exists(o),
         NEW to \in Statuses, NEW late \in BOOLEAN,
         order' = [order EXCEPT ![o].status = to, ![o].late = late],
         NEW work \in Works, request' = [request EXCEPT ![o] = work],
         \/ to \in Decided
         \/ /\ to \in {"expired", "paid"} /\ work = request[o]
            /\ order[o].status \in {"pending", "expired", "paid"},
         \/ work = request[o]
         \/ work.pc \in {"giveBack", "deleteFree"}
         \/ work.pc = "drop" /\ work.taken = order[o].credit
  PROVE  Settled(o)
  <1>. DEFINE row == [order[o] EXCEPT !.status = to, !.late = late]
  <1>1. request[o] = Idle /\ request[o].pc = "idle" /\ order[o] \in Rows
    BY DEF Safe, Stage, At, Types
  <1>2. order' = [order EXCEPT ![o] = row]
    BY <1>1 DEF Types, Rows
  <1>3. /\ row \in Rows /\ row.status = to /\ row.credit = order[o].credit
        /\ row.total = order[o].total /\ row.price = order[o].price
    BY <1>1 DEF Rows
  <1>. HIDE DEF row
  <1>4. Held(o) = order[o].credit
    BY <1>1 DEF Held, At, Exists, Late
  <1>5. ASSUME order'[o] = row, request'[o] = work
        PROVE  Stage(o)' /\ Fresh(o)' /\ Held(o)' = order[o].credit /\ Priced(o)' /\ Paying(o)'
    <2>1. /\ work.pc \in {"idle", "giveBack", "deleteFree", "drop"}
          /\ work.pc = "idle" => work = Idle
          /\ work.pc # "idle" => to \in Decided
          /\ work.pc = "drop" => work.taken = order[o].credit
          /\ to \notin {"absent", "gone"}
      BY <1>1 DEF Decided
    <2>2. Stage(o)'
      BY <2>1, <1>3, <1>5 DEF Stage, At, Early, Late, Ending, Decided
    <2>3. Fresh(o)' /\ Priced(o)'
      BY <2>1, <1>3, <1>5 DEF Fresh, Priced, At, Early, Late
    <2>4. Held(o)' = order[o].credit
      BY <2>1, <1>3, <1>5 DEF Held, At, Exists, Late
    <2>5. Paying(o)'
      BY <1>3, <1>5 DEF Safe, Paying, Decided
    <2>. QED
      BY <2>2, <2>3, <2>4, <2>5
  <1>. QED
    BY <1>2, <1>3, <1>4, <1>5, QuietStep

Deciding(o) ==
    \/ ExpireOrder(o) \/ CommitOrder(o) \/ MarkRefunded(o)
    \/ CancelOrder(o) \/ ConflictOrder(o)
    \/ (RollbackPending(o) \/ DeleteOrder(o)) /\ At(o, "idle")

LEMMA DecidingStep ==
  ASSUME Types, Wallets, NEW o \in Orders, Safe(o), Deciding(o)
  PROVE  Settled(o)
  <1>1. request[o] \in Works /\ order[o] \in Rows
    BY DEF Types
  <1>. DEFINE to(pc) == [request[o] EXCEPT !.pc = pc]
  <1>2. /\ request' = request => request' = [request EXCEPT ![o] = request[o]]
        /\ \A pc : pc # "idle" /\ Goto(o, pc) => request' = [request EXCEPT ![o] = to(pc)]
        /\ \A pc \in Pcs : to(pc) \in Works /\ to(pc).pc = pc
    BY <1>1 DEF Types, Goto, Works
  <1>3. ASSUME NEW from, NEW status, SetStatus(o, from, status)
        PROVE  /\ At(o, "idle") /\ order[o].status \in from
               /\ \E late \in BOOLEAN :
                    order' = [order EXCEPT ![o].status = status, ![o].late = late]
    BY <1>1, <1>3 DEF SetStatus, Rows
  <1>4. UNCHANGED lockedBy => lockedBy' \in [Coupons -> SUBSET Orders]
    BY DEF Types
  <1>. HIDE DEF to
  <1>. USE DEF couponVars, orderVars, Exists, Decided
  <1>5. CASE ExpireOrder(o)
    <2>1. SetStatus(o, {"pending"}, "expired") /\ request' = request /\ Quiet(o)
      BY <1>4, <1>5 DEF ExpireOrder, Quiet
    <2>2. PICK late \in BOOLEAN : order' = [order EXCEPT ![o].status = "expired", ![o].late = late]
      BY <1>3, <2>1
    <2>3. At(o, "idle") /\ order[o].status \in {"pending"} /\ "expired" \in Statuses
      BY <1>3, <2>1 DEF Statuses
    <2>4. request' = [request EXCEPT ![o] = request[o]]
      BY <1>2, <2>1
    <2>. QED
      BY <1>1, <2>1, <2>2, <2>3, <2>4, StatusStep
  <1>6. CASE CommitOrder(o)
    <2>1. SetStatus(o, {"pending", "expired"}, "paid") /\ request' = request /\ Quiet(o)
      BY <1>4, <1>6 DEF CommitOrder, Quiet
    <2>2. PICK late \in BOOLEAN : order' = [order EXCEPT ![o].status = "paid", ![o].late = late]
      BY <1>3, <2>1
    <2>3. At(o, "idle") /\ order[o].status \in {"pending", "expired"} /\ "paid" \in Statuses
      BY <1>3, <2>1 DEF Statuses
    <2>4. request' = [request EXCEPT ![o] = request[o]]
      BY <1>2, <2>1
    <2>. QED
      BY <1>1, <2>1, <2>2, <2>3, <2>4, StatusStep
  <1>7. CASE MarkRefunded(o)
    <2>1. SetStatus(o, {"stock_conflict"}, "refunded") /\ request' = request /\ Quiet(o)
      BY <1>4, <1>7 DEF MarkRefunded, Quiet
    <2>2. PICK late \in BOOLEAN : order' = [order EXCEPT ![o].status = "refunded", ![o].late = late]
      BY <1>1, <2>1 DEF SetStatus, Rows
    <2>3. At(o, "idle") /\ order[o].status = "stock_conflict"
      BY <2>1 DEF SetStatus
    <2>4. Exists(o) /\ "refunded" \in Statuses /\ "refunded" \in Decided
      BY <2>3 DEF Statuses
    <2>5. request' = [request EXCEPT ![o] = request[o]]
      BY <1>2, <2>1
    <2>. HIDE DEF Exists, Decided
    <2>6. Quiet(o) /\ request[o] \in Works
      BY <1>1, <2>1
    <2>. QED
      BY <2>2, <2>3, <2>4, <2>5, <2>6, StatusStep
  <1>8. CASE CancelOrder(o)
    <2>1. SetStatus(o, {"pending", "expired", "paid"}, "canceled") /\ Goto(o, "giveBack") /\ Quiet(o)
      BY <1>4, <1>8 DEF CancelOrder, Quiet
    <2>2. "giveBack" \in Pcs /\ "giveBack" # "idle"
      BY DEF Pcs
    <2>3. PICK late \in BOOLEAN : order' = [order EXCEPT ![o].status = "canceled", ![o].late = late]
      BY <1>3, <2>1
    <2>4. At(o, "idle") /\ order[o].status \in {"pending", "expired", "paid"} /\ "canceled" \in Statuses
      BY <1>3, <2>1 DEF Statuses
    <2>5. request' = [request EXCEPT ![o] = to("giveBack")]
          /\ to("giveBack") \in Works /\ to("giveBack").pc = "giveBack"
      BY <1>2, <2>1, <2>2
    <2>. QED
      BY <2>1, <2>3, <2>4, <2>5, StatusStep
  <1>9. CASE ConflictOrder(o)
    <2>1. SetStatus(o, {"pending", "expired"}, "stock_conflict") /\ Goto(o, "giveBack") /\ Quiet(o)
      BY <1>4, <1>9 DEF ConflictOrder, Quiet
    <2>2. "giveBack" \in Pcs /\ "giveBack" # "idle"
      BY DEF Pcs
    <2>3. PICK late \in BOOLEAN : order' = [order EXCEPT ![o].status = "stock_conflict", ![o].late = late]
      BY <1>3, <2>1
    <2>4. At(o, "idle") /\ order[o].status \in {"pending", "expired"} /\ "stock_conflict" \in Statuses
      BY <1>3, <2>1 DEF Statuses
    <2>5. request' = [request EXCEPT ![o] = to("giveBack")]
          /\ to("giveBack") \in Works /\ to("giveBack").pc = "giveBack"
      BY <1>2, <2>1, <2>2
    <2>. QED
      BY <2>1, <2>3, <2>4, <2>5, StatusStep
  <1>10. CASE RollbackPending(o) /\ At(o, "idle")
    <2>. DEFINE work == [request[o] EXCEPT !.pc = "drop", !.taken = order[o].credit]
    <2>1. /\ SetStatus(o, {"pending", "expired"}, "canceled") /\ Quiet(o)
          /\ request' = [request EXCEPT ![o].pc = "drop", ![o].taken = order[o].credit]
      BY <1>4, <1>10 DEF RollbackPending, Quiet, At, DeleteRow
    <2>2. work \in Works /\ work.pc = "drop" /\ work.taken = order[o].credit
      BY <1>1 DEF Works, Rows, Pcs
    <2>3. request' = [request EXCEPT ![o] = work]
      BY <2>1 DEF Types
    <2>. HIDE DEF work
    <2>4. PICK late \in BOOLEAN :
            order' = [order EXCEPT ![o].status = "canceled", ![o].late = late]
      BY <1>3, <2>1
    <2>5. order[o].status \in {"pending", "expired"} /\ "canceled" \in Statuses
      BY <1>3, <2>1 DEF Statuses
    <2>. QED
      BY <1>10, <2>1, <2>2, <2>3, <2>4, <2>5, StatusStep
  <1>11. CASE DeleteOrder(o) /\ At(o, "idle")
    <2>1. /\ order[o].status \in {"pending", "expired", "canceled", "refunded"}
          /\ order' = [order EXCEPT ![o].status =
                          IF @ \in {"pending", "expired"} THEN "canceled" ELSE @]
          /\ Goto(o, "deleteFree") /\ Quiet(o)
      BY <1>4, <1>11 DEF DeleteOrder, Quiet, At, DeleteRow
    <2>2. "deleteFree" \in Pcs /\ "deleteFree" # "idle"
      BY DEF Pcs
    <2>3. PICK status \in {"canceled", "refunded"} :
            order' = [order EXCEPT ![o].status = status, ![o].late = order[o].late]
      <3>. DEFINE status == IF order[o].status \in {"pending", "expired"}
                            THEN "canceled" ELSE order[o].status
      <3>1. order' = [order EXCEPT ![o] = [order[o] EXCEPT !.status = status]]
        BY <2>1
      <3>2. [order[o] EXCEPT !.status = status]
                = [order[o] EXCEPT !.status = status, !.late = order[o].late]
        BY <1>1 DEF Rows
      <3>3. status \in {"canceled", "refunded"}
        BY <2>1
      <3>. HIDE DEF status
      <3>4. order' = [order EXCEPT ![o].status = status, ![o].late = order[o].late]
        BY <3>1, <3>2, <1>1 DEF Types, Rows
      <3>. QED
        BY <3>3, <3>4
    <2>4. order[o].late \in BOOLEAN /\ status \in Statuses
      BY <1>1, <2>3 DEF Rows, Statuses
    <2>. QED
      BY <1>2, <1>11, <2>1, <2>2, <2>3, <2>4, StatusStep
  <1>. QED
    BY <1>5, <1>6, <1>7, <1>8, <1>9, <1>10, <1>11 DEF Deciding

Clearing(o) ==
    \/ ClearCredit(o)
    \/ RollbackPending(o) /\ At(o, "drop")
    \/ DeleteOrder(o) /\ At(o, "deleteRow")

LEMMA ClearingStep ==
  ASSUME Types, Wallets, NEW o \in Orders, Safe(o), Clearing(o)
  PROVE  Settled(o)
  <1>1. request[o] \in Works /\ order[o] \in Rows
    BY DEF Types
  <1>2. UNCHANGED lockedBy => lockedBy' \in [Coupons -> SUBSET Orders]
    BY DEF Types
  <1>3. Idle \in Works /\ Idle.pc = "idle"
    BY DEF Idle, Works, Pcs
  <1>. USE DEF couponVars, orderVars
  <1>4. CASE ClearCredit(o)
    <2>. DEFINE row == [order[o] EXCEPT !.credit = 0]
    <2>1. /\ request[o].pc = "clear" /\ Quiet(o)
          /\ order' = [order EXCEPT ![o] = row] /\ request' = [request EXCEPT ![o] = Idle]
      BY <1>2, <1>4 DEF ClearCredit, Quiet, At, End, Goto
    <2>2. row \in Rows /\ row.credit = 0 /\ row.status = order[o].status
      BY <1>1 DEF Rows
    <2>. HIDE DEF row
    <2>3. /\ Held(o) = 0
          /\ order[o].status \notin {"absent", "gone", "pending", "expired", "paid"}
      BY <2>1 DEF Held, Safe, Stage, Late, Ending, At
    <2>4. order'[o] = row /\ request'[o] = Idle =>
            Stage(o)' /\ Fresh(o)' /\ Held(o)' = 0 /\ Priced(o)' /\ Paying(o)'
      BY <2>2, <2>3, <1>3
         DEF Stage, Fresh, Held, Priced, Paying, At, Exists, Early, Late, Ending
    <2>. QED
      BY <1>3, <2>1, <2>2, <2>3, <2>4, QuietStep
  <1>. DEFINE row == [NoRow EXCEPT !.status = "gone"]
  <1>5. row \in Rows /\ row.status = "gone" /\ row.credit = 0
    BY DEF NoRow, Rows, Statuses
  <1>6. CASE RollbackPending(o) /\ At(o, "drop")
    <2>. DEFINE work == [request[o] EXCEPT !.pc = "free"]
    <2>1. /\ request[o].pc = "drop" /\ Quiet(o)
          /\ order' = [order EXCEPT ![o] = row] /\ request' = [request EXCEPT ![o] = work]
      BY <1>2, <1>6 DEF RollbackPending, DeleteRow, SetStatus, Quiet, At, Goto
    <2>2. work \in Works /\ work.pc = "free" /\ work.taken = request[o].taken
      BY <1>1 DEF Works, Pcs
    <2>. HIDE DEF row, work
    <2>3. Held(o) = request[o].taken
      BY <2>1 DEF Held, Late, At
    <2>4. order'[o] = row /\ request'[o] = work =>
            Stage(o)' /\ Fresh(o)' /\ Held(o)' = request[o].taken /\ Priced(o)' /\ Paying(o)'
      BY <2>2, <1>5
         DEF Stage, Fresh, Held, Priced, Paying, At, Exists, Early, Late, Ending
    <2>. QED
      BY <1>5, <2>1, <2>2, <2>3, <2>4, QuietStep
  <1>7. CASE DeleteOrder(o) /\ At(o, "deleteRow")
    <2>1. /\ request[o].pc = "deleteRow" /\ Quiet(o)
          /\ order' = [order EXCEPT ![o] = row] /\ request' = [request EXCEPT ![o] = Idle]
      BY <1>2, <1>7 DEF DeleteOrder, DeleteRow, Quiet, At, Goto
    <2>. HIDE DEF row
    <2>2. Held(o) = 0
      BY <2>1 DEF Held, Late, At
    <2>3. order'[o] = row /\ request'[o] = Idle =>
            Stage(o)' /\ Fresh(o)' /\ Held(o)' = 0 /\ Priced(o)' /\ Paying(o)'
      BY <1>3, <1>5
         DEF Stage, Fresh, Held, Priced, Paying, At, Exists, Early, Late, Ending
    <2>. QED
      BY <1>3, <1>5, <2>1, <2>2, <2>3, QuietStep
  <1>. QED
    BY <1>4, <1>6, <1>7 DEF Clearing

-----------------------------------------------------------------------------
(* The money of every order *)

OrderStep(o) ==
    \/ CreatePending(o) \/ ReadCounter(o) \/ SaveCounter(o) \/ ReserveCredit(o)
    \/ TrimCredit(o) \/ LockCoupon(o) \/ CheckAgain(o) \/ InsertOrder(o)
    \/ ReserveOrder(o) \/ EraseOrder(o) \/ UndoCheckout(o)
    \/ ExpireOrder(o) \/ CommitOrder(o) \/ CancelOrder(o) \/ ConflictOrder(o)
    \/ MarkRefunded(o) \/ GiveBack(o) \/ ClearCredit(o)
    \/ RollbackPending(o) \/ DeleteOrder(o)

LEMMA OrderStepSettles ==
  ASSUME Types, Wallets, NEW o \in Orders, Safe(o), OrderStep(o)
  PROVE  Settled(o)
  <1>1. CASE CreatePending(o) \/ ReadCounter(o) \/ SaveCounter(o)
    <2>1. Types' /\ OneOrder(o) /\ Safe(o)' /\ UNCHANGED walletVars
      BY <1>1, Beginning
    <2>2. CreditConserved => CreditConserved'
      BY <2>1, Sums DEF walletVars, creditVars, allocationVars
    <2>. QED
      BY <2>1, <2>2, QuietWallet DEF Settled
  <1>2. CASE RollbackPending(o)
    <2>1. At(o, "idle") \/ At(o, "drop") \/ At(o, "free")
      BY <1>2 DEF RollbackPending, SetStatus, DeleteRow
    <2>. QED
      BY <2>1, <1>2, DecidingStep, ClearingStep, GivingBack DEF Deciding, Clearing, GiveBackSteps
  <1>3. CASE DeleteOrder(o)
    <2>1. At(o, "idle") \/ At(o, "deleteFree") \/ At(o, "deleteRow")
      BY <1>3 DEF DeleteOrder, DeleteRow
    <2>. QED
      BY <2>1, <1>3, DecidingStep, ClearingStep, GivingBack DEF Deciding, Clearing, GiveBackSteps
  <1>4. CASE ReserveCredit(o)
    BY <1>4, Reserving
  <1>5. CASE TrimCredit(o)
    BY <1>5, Trimming
  <1>6. CASE Placing(o)
    BY <1>6, PlacingStep
  <1>7. CASE UndoCheckout(o) \/ GiveBack(o)
    BY <1>7, GivingBack DEF GiveBackSteps
  <1>8. CASE ExpireOrder(o) \/ CommitOrder(o) \/ CancelOrder(o) \/ ConflictOrder(o) \/ MarkRefunded(o)
    BY <1>8, DecidingStep DEF Deciding
  <1>9. CASE ClearCredit(o)
    BY <1>9, ClearingStep DEF Clearing
  <1>. QED
    BY <1>1, <1>2, <1>3, <1>4, <1>5, <1>6, <1>7, <1>8, <1>9 DEF OrderStep, Placing

\* The steps of the manager and of the credits change no amount of an order.
LEMMA BesideOrders ==
  ASSUME request' = request, allocated' = allocated, freed' = freed,
         NEW o \in Orders, Safe(o),
         /\ order'[o].status = order[o].status /\ order'[o].total = order[o].total
         /\ order'[o].credit = order[o].credit /\ order'[o].price = order[o].price
  PROVE  Safe(o)'
  <1>1. Outstanding(o)' = Outstanding(o)
    BY Sums
  <1>2. Stage(o)' /\ Fresh(o)'
    BY DEF Safe, Stage, Fresh, At
  <1>3. Held(o)' = Held(o)
    BY DEF Held, At, Exists
  <1>4. Priced(o)' /\ Paying(o)'
    BY DEF Safe, Priced, Paying, At, TooSmall
  <1>. QED
    BY <1>1, <1>2, <1>3, <1>4 DEF Safe

ManagerStep == (\E k \in Coupons : UpdateCoupon(k) \/ RemoveCoupon(k)) \/ UpdateSettings

LEMMA ManagerStepTypes ==
  ASSUME Types, ManagerStep
  PROVE  /\ Types' /\ UNCHANGED <<request, walletVars>>
         /\ \A o \in Orders :
              /\ order'[o].status = order[o].status /\ order'[o].total = order[o].total
              /\ order'[o].credit = order[o].credit /\ order'[o].price = order[o].price
              /\ order'[o].late = order[o].late
              /\ order'[o].coupon \in {order[o].coupon, NoCoupon}
         /\ UNCHANGED lockedBy
  <1>1. ASSUME NEW k \in Coupons, UpdateCoupon(k)
        PROVE  /\ UNCHANGED <<settings, lockedBy, counter, order, request, walletVars>>
               /\ coupon' \in [Coupons -> {"active", "paused", "removed"}]
    BY <1>1 DEF UpdateCoupon, orderVars, Types
  <1>2. ASSUME NEW k \in Coupons, RemoveCoupon(k)
        PROVE  /\ UNCHANGED <<settings, lockedBy, counter, request, walletVars>>
               /\ coupon' \in [Coupons -> {"active", "paused", "removed"}]
               /\ order' = [o \in Orders |-> IF order[o].coupon = k
                                  THEN [order[o] EXCEPT !.coupon = NoCoupon] ELSE order[o]]
    BY <1>2 DEF RemoveCoupon, Types
  <1>3. ASSUME UpdateSettings
        PROVE  /\ UNCHANGED <<coupon, lockedBy, counter, order, request, walletVars>>
               /\ settings' \in Saved
    BY <1>3 DEF UpdateSettings, orderVars, couponVars, Saved
  <1>4. ASSUME NEW k \in Coupons, RemoveCoupon(k), NEW o \in Orders
        PROVE  /\ order'[o] \in Rows
               /\ order'[o].status = order[o].status /\ order'[o].total = order[o].total
               /\ order'[o].credit = order[o].credit /\ order'[o].price = order[o].price
               /\ order'[o].late = order[o].late
               /\ order'[o].coupon \in {order[o].coupon, NoCoupon}
    <2>1. order[o] \in Rows
      BY DEF Types
    <2>. QED
      BY <1>2, <1>4, <2>1 DEF Rows
  <1>5. ASSUME NEW k \in Coupons, RemoveCoupon(k)
        PROVE  order' \in [Orders -> Rows]
    BY <1>2, <1>4, <1>5
  <1>6. CASE \E k \in Coupons : RemoveCoupon(k)
    BY <1>2, <1>4, <1>5, <1>6 DEF Types
  <1>7. CASE \E k \in Coupons : UpdateCoupon(k)
    BY <1>1, <1>7 DEF Types
  <1>8. CASE UpdateSettings
    BY <1>3, <1>8 DEF Types
  <1>. QED
    BY <1>6, <1>7, <1>8 DEF ManagerStep

\* The inductive invariant of the money.
MoneyInv ==
    /\ Types
    /\ Wallets
    /\ CreditConserved
    /\ \A o \in Orders : Safe(o)

LEMMA NextSteps ==
  ASSUME Next
  PROVE  \/ \E o \in Orders : OrderStep(o)
         \/ ManagerStep
         \/ CheckStep /\ UNCHANGED <<settings, coupon, lockedBy, counter, order, request>>
  BY DEF Next, OrderStep, ManagerStep, CheckStep, couponVars, orderVars

LEMMA MoneyNext ==
  ASSUME MoneyInv, [Next]_vars
  PROVE  MoneyInv'
  <1>. USE DEF MoneyInv
  <1>1. CASE UNCHANGED vars
    <2>1. UNCHANGED <<settings, coupon, lockedBy, counter, order, request>> /\ UNCHANGED walletVars
      BY <1>1 DEF vars, couponVars, orderVars
    <2>2. Types' /\ Wallets' /\ allocated' = allocated /\ freed' = freed
      BY <2>1, QuietWallet DEF Types
    <2>3. CreditConserved'
      BY <2>1, Sums DEF walletVars, creditVars, allocationVars
    <2>. QED
      BY <2>1, <2>2, <2>3, BesideOrders
  <1>2. ASSUME NEW o \in Orders, OrderStep(o)
        PROVE  MoneyInv'
    <2>1. Settled(o)
      BY <1>2, OrderStepSettles
    <2>. QED
      BY <2>1, OthersKeep DEF Settled
  <1>3. CASE ManagerStep
    <2>1. UNCHANGED <<request, walletVars>> /\ Types'
      BY <1>3, ManagerStepTypes
    <2>2. Wallets' /\ allocated' = allocated /\ freed' = freed
      BY <2>1, QuietWallet
    <2>3. CreditConserved'
      BY <2>1, Sums DEF walletVars, creditVars, allocationVars
    <2>4. \A o \in Orders : Safe(o)'
      BY <1>3, <2>1, <2>2, ManagerStepTypes, BesideOrders
    <2>. QED
      BY <2>1, <2>2, <2>3, <2>4
  <1>4. CASE CheckStep /\ UNCHANGED <<settings, coupon, lockedBy, counter, order, request>>
    <2>1. Wallets' /\ allocated' = allocated /\ freed' = freed /\ CreditConserved'
      BY <1>4, CheckedStep
    <2>2. Types'
      BY <1>4 DEF Types
    <2>3. \A o \in Orders : Safe(o)'
      BY <1>4, <2>1, BesideOrders
    <2>. QED
      BY <2>1, <2>2, <2>3
  <1>. QED
    BY <1>1, <1>2, <1>3, <1>4, NextSteps

LEMMA MoneyInit ==
  ASSUME Init
  PROVE  MoneyInv
  <1>1. /\ balance = InitialAmount /\ overdue = {} /\ validating = NoCheck
        /\ creditStatus = [c \in Credits |-> "active"]
        /\ allocated = [r \in Orders |-> [c \in Credits |-> 0]] /\ freed = allocated
    BY CheckoutAssumption DEF Init, CreditsInit
  <1>2. settings \in Saved
    BY CheckoutAssumption DEF Init, Saved
  <1>3. Types
    <2>1. NoRow \in Rows /\ Idle \in Works
      BY NoRowType DEF Idle, Works, Pcs
    <2>. QED
      BY <1>2, <2>1 DEF Init, Types
  <1>4. Wallets
    BY <1>1, CreditsAssumption DEF Wallets
  <1>5. \A o \in Orders : Outstanding(o) = 0
    <2>. TAKE o \in Orders
    <2>. DEFINE f == [c \in Credits |-> allocated[o][c] - freed[o][c]]
    <2>1. \A c \in Credits : f[c] = 0
      BY <1>1
    <2>. HIDE DEF f
    <2>2. Total(f, Credits) = 0
      BY <2>1, CreditsAssumption, TotalZero
    <2>. QED
      BY <2>2 DEF f, Outstanding
  <1>6. CreditConserved
    <2>. SUFFICES ASSUME NEW c \in Credits
                  PROVE  balance[c] + Used(allocated, freed, c) = InitialAmount[c]
      BY Sums
    <2>. DEFINE f == [r \in Reservations |-> allocated[r][c] - freed[r][c]]
    <2>1. \A r \in Reservations : f[r] = 0
      BY <1>1, CheckoutAssumption
    <2>2. Used(allocated, freed, c) = Total(f, Reservations)
      BY DEF Used
    <2>. HIDE DEF f
    <2>3. Total(f, Reservations) = 0
      BY <2>1, CheckoutAssumption, TotalZero
    <2>. QED
      BY <1>1, <2>2, <2>3, CreditsAssumption
  <1>7. ASSUME NEW o \in Orders PROVE Safe(o)
    <2>1. /\ order[o].status = "absent" /\ request[o] = Idle /\ request[o].pc = "idle"
          /\ \A c \in Credits : allocated[o][c] = 0
      BY <1>1 DEF Init, NoRow, Idle
    <2>2. Stage(o) /\ Fresh(o) /\ Priced(o) /\ Paying(o)
      BY <2>1 DEF Stage, Fresh, Priced, Paying, At, Early, Late, Ending
    <2>3. Held(o) = 0
      BY <2>1 DEF Held, At, Exists, Late
    <2>. QED
      BY <1>5, <2>2, <2>3 DEF Safe
  <1>. QED
    BY <1>3, <1>4, <1>6, <1>7 DEF MoneyInv

-----------------------------------------------------------------------------
(* The limit of a coupon *)

LEMMA UsesAreFinite ==
  ASSUME NEW k
  PROVE  /\ IsFiniteSet(Uses(k)) /\ IsFiniteSet(OnTime(k)) /\ IsFiniteSet(OnTime(k)')
         /\ Cardinality(Uses(k)) \in Nat /\ Cardinality(OnTime(k)) \in Nat
         /\ Cardinality(OnTime(k)') \in Nat
         /\ Cardinality(OnTime(k)) <= Cardinality(Uses(k))
         /\ OnTime(k)' \subseteq OnTime(k) => Cardinality(OnTime(k)') <= Cardinality(OnTime(k))
  <1>1. Uses(k) \subseteq Orders /\ OnTime(k) \subseteq Uses(k) /\ OnTime(k)' \subseteq Orders
    BY DEF Uses, OnTime
  <1>2. IsFiniteSet(Orders)
    BY CheckoutAssumption
  <1>. QED
    BY <1>1, <1>2, FS_Subset, FS_CardinalityType

\* The row of the order does not start to count against a coupon.
Fades(o) ==
    order'[o].status \in {"pending", "paid"} /\ ~order'[o].late =>
        /\ order[o].status \in {"pending", "paid"} /\ ~order[o].late
        /\ order'[o].coupon \in {order[o].coupon, NoCoupon}

LEMMA FadedUses ==
  ASSUME \A o \in Orders : Fades(o), NEW k \in Coupons
  PROVE  OnTime(k)' \subseteq OnTime(k)
  <1>1. k # NoCoupon
    BY CheckoutAssumption
  <1>. QED
    BY <1>1 DEF Fades, OnTime, Uses

\* A step after which no request has come to hold a coupon that it did not hold.
LEMMA CouponsKept ==
  ASSUME CouponInv,
         \A k \in Coupons : lockedBy'[k] \subseteq lockedBy[k],
         \A k \in Coupons : OnTime(k)' \subseteq OnTime(k),
         \A o \in Orders :
            /\ request'[o].pc \in {"lock", "check"} => UsesCoupon(o)
            /\ request'[o].pc \in {"check", "insert"} /\ UsesCoupon(o) =>
                  request'[o].pc = request[o].pc /\ o \in lockedBy'[CouponOf(o)]
  PROVE  CouponInv'
  <1>. USE DEF CouponInv
  <1>1. ASSUME NEW o \in Orders, UsesCoupon(o)
        PROVE  CouponOf(o) \in Coupons /\ Terms[CouponOf(o)].maxUses \in Nat
    BY <1>1, CheckoutAssumption DEF UsesCoupon, CouponOf
  <1>2. \A k \in Coupons : Cardinality(OnTime(k)') <= Cardinality(OnTime(k))
            /\ Cardinality(OnTime(k)') \in Nat /\ Cardinality(OnTime(k)) \in Nat
    BY UsesAreFinite
  <1>3. \A k \in Coupons : \A o, p \in lockedBy'[k] : o = p
    OBVIOUS
  <1>4. ASSUME NEW o \in Orders
        PROVE  /\ request'[o].pc \in {"check", "insert"} /\ UsesCoupon(o) => o \in lockedBy'[CouponOf(o)]
               /\ At(o, "insert")' /\ UsesCoupon(o) /\ Terms[CouponOf(o)].maxUses > 0 =>
                    Cardinality(OnTime(CouponOf(o))') < Terms[CouponOf(o)].maxUses
    <2>1. request'[o].pc \in {"check", "insert"} /\ UsesCoupon(o) => o \in lockedBy'[CouponOf(o)]
      OBVIOUS
    <2>2. ASSUME At(o, "insert")', UsesCoupon(o), Terms[CouponOf(o)].maxUses > 0
          PROVE  Cardinality(OnTime(CouponOf(o))') < Terms[CouponOf(o)].maxUses
      <3>1. At(o, "insert")
        BY <2>2 DEF At
      <3>2. Cardinality(OnTime(CouponOf(o))) < Terms[CouponOf(o)].maxUses
        BY <3>1, <2>2
      <3>. QED
        BY <1>1, <1>2, <2>2, <3>2
    <2>. QED
      BY <2>1, <2>2
  <1>5. CouponLimit'
    <2>. SUFFICES ASSUME NEW k \in Coupons, Terms[k].maxUses > 0
                  PROVE  Cardinality(OnTime(k)') <= Terms[k].maxUses
      BY DEF CouponLimit, OnTime
    <2>1. Cardinality(OnTime(k)) <= Terms[k].maxUses
      BY DEF CouponLimit, OnTime
    <2>2. Terms[k].maxUses \in Nat
      BY CheckoutAssumption
    <2>. QED
      BY <1>2, <2>1, <2>2
  <1>. QED
    BY <1>3, <1>4, <1>5 DEF UsesCoupon, CouponOf

\* The steps of an order that leave the limit to the others.
LEMMA OrderKeepsCoupons ==
  ASSUME Types, CouponInv, NEW o \in Orders, OneOrder(o), Fades(o),
         UNCHANGED lockedBy \/ Unlock(o),
         request'[o].pc # "check", request'[o].pc = "lock" => UsesCoupon(o),
         request'[o].pc = "insert" => ~UsesCoupon(o)
  PROVE  CouponInv'
  <1>1. \A p \in Orders : Fades(p)
    BY DEF OneOrder, Fades
  <1>2. \A k \in Coupons : OnTime(k)' \subseteq OnTime(k)
    BY <1>1, FadedUses
  <1>3. \A k \in Coupons : lockedBy'[k] \subseteq lockedBy[k] /\ lockedBy[k] \ {o} \subseteq lockedBy'[k]
    BY DEF Types, Unlock
  <1>4. ASSUME NEW p \in Orders
        PROVE  /\ request'[p].pc \in {"lock", "check"} => UsesCoupon(p)
               /\ request'[p].pc \in {"check", "insert"} /\ UsesCoupon(p) =>
                     request'[p].pc = request[p].pc /\ p \in lockedBy'[CouponOf(p)]
    <2>1. CASE p = o
      BY <2>1
    <2>2. CASE p # o
      <3>1. request'[p] = request[p]
        BY <2>2 DEF OneOrder
      <3>2. UsesCoupon(p) => CouponOf(p) \in Coupons
        BY CheckoutAssumption DEF UsesCoupon, CouponOf
      <3>. QED
        BY <1>3, <2>2, <3>1, <3>2 DEF CouponInv
    <2>. QED
      BY <2>1, <2>2
  <1>. QED
    BY <1>2, <1>3, <1>4, CouponsKept

LEMMA LockingStep ==
  ASSUME Types, CouponInv, NEW o \in Orders, LockCoupon(o)
  PROVE  CouponInv'
  <1>. DEFINE k == CouponOf(o)
  <1>1. /\ request[o].pc = "lock" /\ lockedBy[k] = {}
        /\ lockedBy' = [lockedBy EXCEPT ![k] = {o}]
        /\ request' = [request EXCEPT ![o] = [request[o] EXCEPT !.pc = "check"]]
        /\ order' = order
    BY DEF LockCoupon, At, Lockable, Goto
  <1>2. k \in Coupons /\ UsesCoupon(o)
    BY <1>1, CheckoutAssumption DEF CouponInv, UsesCoupon, CouponOf
  <1>3. request'[o].pc = "check" /\ \A p \in Orders \ {o} : request'[p] = request[p]
    BY <1>1 DEF Types, Works
  <1>4. lockedBy'[k] = {o} /\ \A j \in Coupons \ {k} : lockedBy'[j] = lockedBy[j]
    BY <1>1, <1>2 DEF Types
  <1>5. \A j : OnTime(j)' = OnTime(j)
    BY <1>1 DEF OnTime, Uses
  <1>6. \A p \in Orders : request'[p].pc \in {"check", "insert"} /\ UsesCoupon(p) /\ p # o =>
                             CouponOf(p) \in Coupons \ {k}
    BY <1>1, <1>3, CheckoutAssumption DEF CouponInv, UsesCoupon, CouponOf
  <1>. HIDE DEF k
  <1>7. \A j \in Coupons : \A p, q \in lockedBy'[j] : p = q
    BY <1>4 DEF CouponInv
  <1>8. ASSUME NEW p \in Orders
        PROVE  /\ request'[p].pc \in {"lock", "check"} => UsesCoupon(p)
               /\ request'[p].pc \in {"check", "insert"} /\ UsesCoupon(p) => p \in lockedBy'[CouponOf(p)]
               /\ request'[p].pc = "insert" => At(p, "insert")
    <2>1. CASE p = o
      BY <2>1, <1>2, <1>3, <1>4 DEF k
    <2>2. CASE p # o
      BY <2>2, <1>3, <1>4, <1>6 DEF CouponInv, At
    <2>. QED
      BY <2>1, <2>2
  <1>9. \A p \in Orders : At(p, "insert")' /\ UsesCoupon(p) /\ Terms[CouponOf(p)].maxUses > 0 =>
            Cardinality(OnTime(CouponOf(p))') < Terms[CouponOf(p)].maxUses
    BY <1>5, <1>8 DEF CouponInv, At
  <1>10. CouponLimit'
    BY <1>5 DEF CouponInv, CouponLimit, OnTime
  <1>. QED
    BY <1>7, <1>8, <1>9, <1>10 DEF CouponInv, UsesCoupon, CouponOf

LEMMA CheckingAgain ==
  ASSUME Types, CouponInv, NEW o \in Orders, OneOrder(o), CheckAgain(o)
  PROVE  CouponInv'
  <1>1. request[o].pc = "check" /\ order' = order /\ request[o] \in Works
    BY DEF CheckAgain, At, Types
  <1>2. CouponOf(o) \in Coupons /\ UsesCoupon(o) /\ o \in lockedBy[CouponOf(o)]
    BY <1>1, CheckoutAssumption DEF CouponInv, UsesCoupon, CouponOf
  <1>3. CASE ~GetActive(o)
    <2>1. Unlock(o) /\ request'[o].pc = "undo"
      BY <1>3, <1>1 DEF CheckAgain, Goto, Types, Works
    <2>. QED
      BY <1>1, <2>1, OrderKeepsCoupons DEF Fades
  <1>4. CASE GetActive(o)
    <2>1. lockedBy' = lockedBy /\ request'[o].pc = "insert"
          /\ \A p \in Orders \ {o} : request'[p] = request[p]
      BY <1>4, <1>1 DEF CheckAgain, Goto, Types, Works
    <2>2. \A j : OnTime(j)' = OnTime(j)
      BY <1>1 DEF OnTime, Uses
    <2>3. Terms[CouponOf(o)].maxUses > 0 =>
            Cardinality(OnTime(CouponOf(o))) < Terms[CouponOf(o)].maxUses
      <3>1. Terms[CouponOf(o)].maxUses > 0 =>
              Cardinality(Uses(CouponOf(o))) < Terms[CouponOf(o)].maxUses
        BY <1>4 DEF GetActive
      <3>2. Terms[CouponOf(o)].maxUses \in Nat
        BY <1>2, CheckoutAssumption
      <3>. QED
        BY <3>1, <3>2, UsesAreFinite
    <2>4. ASSUME NEW p \in Orders
          PROVE  /\ request'[p].pc \in {"lock", "check"} => UsesCoupon(p)
                 /\ request'[p].pc \in {"check", "insert"} /\ UsesCoupon(p) => p \in lockedBy'[CouponOf(p)]
                 /\ At(p, "insert")' /\ UsesCoupon(p) /\ Terms[CouponOf(p)].maxUses > 0 =>
                        Cardinality(OnTime(CouponOf(p))') < Terms[CouponOf(p)].maxUses
      <3>1. CASE p = o
        BY <3>1, <1>2, <2>1, <2>2, <2>3
      <3>2. CASE p # o
        BY <3>2, <2>1, <2>2 DEF CouponInv, At
      <3>. QED
        BY <3>1, <3>2
    <2>5. CouponLimit'
      BY <2>2 DEF CouponInv, CouponLimit, OnTime
    <2>6. \A j \in Coupons : \A p, q \in lockedBy'[j] : p = q
      BY <2>1 DEF CouponInv
    <2>. QED
      BY <2>4, <2>5, <2>6 DEF CouponInv, UsesCoupon, CouponOf
  <1>. QED
    BY <1>3, <1>4

\* The order that is inserted is the only one whose request holds the coupon.
LEMMA InsertingStep ==
  ASSUME Types, CouponInv, NEW o \in Orders, Safe(o), OneOrder(o), InsertOrder(o)
  PROVE  CouponInv'
  <1>1. request[o].pc = "insert" /\ order[o].status = "absent" /\ request[o] \in Works
    BY DEF InsertOrder, At, Types, Safe, Stage, Late
  <1>2. CASE ~Insertable(o)
    <2>1. Unlock(o) /\ request'[o].pc = "undo" /\ order' = order
      BY <1>1, <1>2 DEF InsertOrder, Goto, Types, Works
    <2>. QED
      BY <2>1, OrderKeepsCoupons DEF Fades
  <1>3. CASE Insertable(o)
    <2>1. lockedBy' = lockedBy /\ request'[o].pc = "stock"
      BY <1>1, <1>3 DEF InsertOrder, Goto, Types, Works
    <2>2. order'[o].coupon = CouponOf(o)
      BY <1>3 DEF InsertOrder, NoRow, Types
    <2>3. /\ \A p \in Orders \ {o} : order'[p] = order[p] /\ request'[p] = request[p]
          /\ o \notin Uses(CouponOf(o))
      BY <1>1 DEF OneOrder, Uses
    <2>4. CASE ~UsesCoupon(o)
      <3>1. \A k \in Coupons : OnTime(k)' \subseteq OnTime(k)
        BY <2>2, <2>3, <2>4, CheckoutAssumption DEF OnTime, Uses, UsesCoupon
      <3>2. \A p \in Orders : /\ request'[p].pc \in {"lock", "check"} => UsesCoupon(p)
                              /\ request'[p].pc \in {"check", "insert"} /\ UsesCoupon(p) =>
                                   request'[p].pc = request[p].pc /\ p \in lockedBy'[CouponOf(p)]
        BY <2>1, <2>3 DEF CouponInv
      <3>. QED
        BY <2>1, <3>1, <3>2, CouponsKept
    <2>5. CASE UsesCoupon(o)
      <3>. DEFINE k == CouponOf(o)
      <3>1. k \in Coupons /\ o \in lockedBy[k] /\ Terms[k].maxUses \in Nat
        BY <1>1, <2>5, CheckoutAssumption DEF CouponInv, UsesCoupon, CouponOf
      <3>2. Terms[k].maxUses > 0 => Cardinality(OnTime(k)) < Terms[k].maxUses
        BY <1>1, <2>5 DEF CouponInv, At
      <3>3. /\ OnTime(k)' \subseteq OnTime(k) \cup {o}
            /\ \A j \in Coupons \ {k} : OnTime(j)' \subseteq OnTime(j)
        BY <2>2, <2>3 DEF OnTime, Uses
      <3>4. Cardinality(OnTime(k)') \in Nat /\ Cardinality(OnTime(k)) \in Nat
            /\ Cardinality(OnTime(k)') <= Cardinality(OnTime(k)) + 1
        <4>1. IsFiniteSet(OnTime(k)) /\ Cardinality(OnTime(k)) \in Nat
              /\ Cardinality(OnTime(k)') \in Nat
          BY UsesAreFinite
        <4>2. IsFiniteSet(OnTime(k) \cup {o})
              /\ Cardinality(OnTime(k) \cup {o}) <= Cardinality(OnTime(k)) + 1
          BY <4>1, FS_AddElement
        <4>3. Cardinality(OnTime(k)') <= Cardinality(OnTime(k) \cup {o})
              /\ Cardinality(OnTime(k) \cup {o}) \in Nat
          BY <3>3, <4>2, FS_Subset, FS_CardinalityType
        <4>. QED
          BY <4>1, <4>2, <4>3
      <3>5. CouponLimit'
        <4>. SUFFICES ASSUME NEW j \in Coupons, Terms[j].maxUses > 0
                      PROVE  Cardinality(OnTime(j)') <= Terms[j].maxUses
          BY DEF CouponLimit, OnTime
        <4>1. CASE j = k
          BY <4>1, <3>1, <3>2, <3>4
        <4>2. CASE j # k
          <5>1. Cardinality(OnTime(j)') <= Cardinality(OnTime(j))
                /\ Cardinality(OnTime(j)') \in Nat /\ Cardinality(OnTime(j)) \in Nat
            BY <4>2, <3>3, UsesAreFinite
          <5>2. Cardinality(OnTime(j)) <= Terms[j].maxUses /\ Terms[j].maxUses \in Nat
            BY CheckoutAssumption DEF CouponInv, CouponLimit, OnTime
          <5>. QED
            BY <5>1, <5>2
        <4>. QED
          BY <4>1, <4>2
      <3>. HIDE DEF k
      <3>6. ASSUME NEW p \in Orders
            PROVE  /\ request'[p].pc \in {"lock", "check"} => UsesCoupon(p)
                   /\ request'[p].pc \in {"check", "insert"} /\ UsesCoupon(p) =>
                        p # o /\ request'[p] = request[p] /\ p \in lockedBy'[CouponOf(p)]
        BY <2>1, <2>3 DEF CouponInv
      <3>7. ASSUME NEW p \in Orders, At(p, "insert")', UsesCoupon(p),
                   Terms[CouponOf(p)].maxUses > 0
            PROVE  Cardinality(OnTime(CouponOf(p))') < Terms[CouponOf(p)].maxUses
        <4>1. p # o /\ At(p, "insert") /\ p \in lockedBy[CouponOf(p)] /\ CouponOf(p) \in Coupons
          BY <2>1, <3>6, <3>7, CheckoutAssumption DEF At, UsesCoupon, CouponOf
        <4>2. CouponOf(p) # k
          BY <3>1, <4>1 DEF CouponInv
        <4>3. Cardinality(OnTime(CouponOf(p))) < Terms[CouponOf(p)].maxUses
              /\ Terms[CouponOf(p)].maxUses \in Nat
          BY <3>7, <4>1, CheckoutAssumption DEF CouponInv
        <4>4. /\ Cardinality(OnTime(CouponOf(p))') <= Cardinality(OnTime(CouponOf(p)))
              /\ Cardinality(OnTime(CouponOf(p))') \in Nat
              /\ Cardinality(OnTime(CouponOf(p))) \in Nat
          BY <3>3, <4>1, <4>2, UsesAreFinite
        <4>. QED
          BY <4>3, <4>4
      <3>8. \A j \in Coupons : \A p, q \in lockedBy'[j] : p = q
        BY <2>1 DEF CouponInv
      <3>. QED
        BY <3>5, <3>6, <3>7, <3>8 DEF CouponInv, UsesCoupon, CouponOf
    <2>. QED
      BY <2>4, <2>5
  <1>. QED
    BY <1>2, <1>3

LEMMA OrderStepCoupons ==
  ASSUME Types, CouponInv, NEW o \in Orders, Safe(o), OneOrder(o), OrderStep(o)
  PROVE  CouponInv'
  <1>1. request[o] \in Works /\ order[o] \in Rows
    BY DEF Types
  <1>2. Proceed(o) \in {"lock", "insert"} /\ (Proceed(o) = "lock" <=> UsesCoupon(o))
    BY DEF Proceed
  <1>3. CASE LockCoupon(o) \/ CheckAgain(o) \/ InsertOrder(o)
    BY <1>3, LockingStep, CheckingAgain, InsertingStep
  <1>4. ASSUME UNCHANGED lockedBy \/ Unlock(o), Fades(o), request'[o].pc \notin {"check", "lock", "insert"}
        PROVE  CouponInv'
    BY <1>4, OrderKeepsCoupons
  <1>5. order' = order => Fades(o)
    BY DEF Fades
  <1>6. order'[o].status \notin {"pending", "paid"} => Fades(o)
    BY DEF Fades
  <1>. USE DEF couponVars, orderVars
  <1>7. CASE CreatePending(o) \/ ReadCounter(o)
    <2>1. request'[o].pc \in {"count", "counted"} /\ order' = order /\ lockedBy' = lockedBy
      BY <1>1, <1>7 DEF CreatePending, ReadCounter, Types, Works
    <2>. QED
      BY <1>4, <1>5, <2>1
  <1>8. CASE SaveCounter(o) \/ ReserveCredit(o) \/ TrimCredit(o)
    <2>1. request'[o].pc \in {"credit", "trim", Proceed(o)} /\ order' = order /\ lockedBy' = lockedBy
      BY <1>1, <1>8 DEF SaveCounter, ReserveCredit, TrimCredit, Types, Works
    <2>2. /\ request'[o].pc # "check" /\ (request'[o].pc = "lock" => UsesCoupon(o))
          /\ (request'[o].pc = "insert" => ~UsesCoupon(o))
      BY <1>2, <2>1
    <2>. QED
      BY <1>5, <2>1, <2>2, OrderKeepsCoupons
  <1>9. CASE ReserveOrder(o) \/ GiveBack(o)
    <2>1. /\ request'[o].pc \in {"idle", "erase", "clear"} /\ order' = order
          /\ UNCHANGED lockedBy \/ Unlock(o)
      BY <1>1, <1>9 DEF ReserveOrder, GiveBack, End, Goto, Types, Works, Idle
    <2>. QED
      BY <1>4, <1>5, <2>1
  <1>10. CASE EraseOrder(o) \/ UndoCheckout(o)
    <2>1. /\ request'[o].pc \in {"idle", "undo"} /\ order'[o].status = "gone"
          /\ UNCHANGED lockedBy \/ Unlock(o)
      BY <1>1, <1>10 DEF EraseOrder, UndoCheckout, End, Goto, Types, Works, Idle, Rows, NoRow
    <2>. QED
      BY <1>4, <1>6, <2>1
  <1>11. ASSUME NEW from, NEW to, SetStatus(o, from, to), to # "pending",
                to = "paid" => from = {"pending", "expired"}
         PROVE  Fades(o)
    BY <1>1, <1>11 DEF SetStatus, Fades, Types, Rows
  <1>12. CASE ExpireOrder(o) \/ CommitOrder(o) \/ MarkRefunded(o)
    <2>1. At(o, "idle") /\ request' = request /\ lockedBy' = lockedBy
      BY <1>12 DEF ExpireOrder, CommitOrder, MarkRefunded, SetStatus
    <2>2. Fades(o)
      BY <1>11, <1>12 DEF ExpireOrder, CommitOrder, MarkRefunded
    <2>. QED
      BY <1>4, <2>1, <2>2 DEF At
  <1>13. CASE CancelOrder(o) \/ ConflictOrder(o)
    <2>1. request'[o].pc = "giveBack" /\ lockedBy' = lockedBy
      BY <1>1, <1>13 DEF CancelOrder, ConflictOrder, Goto, Types, Works
    <2>2. Fades(o)
      BY <1>11, <1>13 DEF CancelOrder, ConflictOrder
    <2>. QED
      BY <1>4, <2>1, <2>2
  <1>14. CASE ClearCredit(o)
    <2>1. /\ request'[o].pc = "idle" /\ lockedBy' = lockedBy
          /\ order'[o].status = order[o].status /\ order'[o].late = order[o].late
          /\ order'[o].coupon = order[o].coupon
      BY <1>1, <1>14 DEF ClearCredit, End, Goto, Types, Works, Idle, Rows
    <2>. QED
      BY <1>4, <2>1 DEF Fades
  <1>15. ASSUME NEW from, NEW to, DeleteRow(o, from, to), to \in {"free", "idle"}
         PROVE  CouponInv'
    <2>1. /\ request'[o].pc \in {"free", "idle"} /\ order'[o].status = "gone"
          /\ lockedBy' = lockedBy
      BY <1>1, <1>15 DEF DeleteRow, Goto, Types, Works, Idle, Rows, NoRow
    <2>. QED
      BY <1>4, <1>6, <2>1
  <1>16. CASE RollbackPending(o)
    <2>1. CASE DeleteRow(o, "drop", "free")
      BY <1>15, <2>1
    <2>2. CASE /\ SetStatus(o, {"pending", "expired"}, "canceled")
               /\ request' = [request EXCEPT ![o].pc = "drop", ![o].taken = order[o].credit]
               /\ UNCHANGED lockedBy
      <3>1. request'[o].pc = "drop"
        BY <1>1, <2>2 DEF Types, Works
      <3>2. Fades(o)
        BY <1>11, <2>2
      <3>. QED
        BY <1>4, <2>2, <3>1, <3>2
    <2>3. CASE End(o) /\ UNCHANGED <<lockedBy, order>>
      <3>1. request'[o].pc = "idle"
        BY <1>1, <2>3 DEF End, Goto, Types, Idle
      <3>. QED
        BY <1>4, <1>5, <2>3, <3>1
    <2>. QED
      BY <1>16, <2>1, <2>2, <2>3 DEF RollbackPending
  <1>17. CASE DeleteOrder(o)
    <2>1. CASE DeleteRow(o, "deleteRow", "idle")
      BY <1>15, <2>1
    <2>2. CASE /\ order[o].status \in {"pending", "expired", "canceled", "refunded"}
               /\ order' = [order EXCEPT ![o].status =
                       IF @ \in {"pending", "expired"} THEN "canceled" ELSE @]
               /\ Goto(o, "deleteFree") /\ UNCHANGED lockedBy
      <3>1. request'[o].pc = "deleteFree" /\ order'[o].status \notin {"pending", "paid"}
        BY <1>1, <2>2 DEF Goto, Types, Works, Rows
      <3>. QED
        BY <1>4, <1>6, <2>2, <3>1
    <2>3. CASE Goto(o, "deleteRow") /\ UNCHANGED <<lockedBy, order>>
      <3>1. request'[o].pc = "deleteRow"
        BY <1>1, <2>3 DEF Goto, Types, Works
      <3>. QED
        BY <1>4, <1>5, <2>3, <3>1
    <2>. QED
      BY <1>17, <2>1, <2>2, <2>3 DEF DeleteOrder
  <1>. QED
    BY <1>3, <1>7, <1>8, <1>9, <1>10, <1>12, <1>13, <1>14, <1>16, <1>17 DEF OrderStep

\* A step of no order: no request moves, and no row starts to count.
LEMMA OthersKeepCoupons ==
  ASSUME CouponInv, UNCHANGED <<request, lockedBy>>, \A o \in Orders : Fades(o)
  PROVE  CouponInv'
  <1>1. \A k \in Coupons : OnTime(k)' \subseteq OnTime(k)
    BY FadedUses
  <1>2. \A o \in Orders :
            /\ request'[o].pc \in {"lock", "check"} => UsesCoupon(o)
            /\ request'[o].pc \in {"check", "insert"} /\ UsesCoupon(o) =>
                  request'[o].pc = request[o].pc /\ o \in lockedBy'[CouponOf(o)]
    BY DEF CouponInv
  <1>. QED
    BY <1>1, <1>2, CouponsKept

LEMMA CouponNext ==
  ASSUME MoneyInv, CouponInv, [Next]_vars
  PROVE  CouponInv'
  <1>. USE DEF MoneyInv
  <1>1. CASE UNCHANGED vars
    <2>1. UNCHANGED <<request, lockedBy>> /\ order' = order
      BY <1>1 DEF vars, couponVars, orderVars
    <2>. QED
      BY <2>1, OthersKeepCoupons DEF Fades
  <1>2. ASSUME NEW o \in Orders, OrderStep(o)
        PROVE  CouponInv'
    <2>1. OneOrder(o)
      BY <1>2, OrderStepSettles DEF Settled
    <2>. QED
      BY <1>2, <2>1, OrderStepCoupons
  <1>3. CASE ManagerStep
    <2>1. UNCHANGED <<request, lockedBy>> /\ \A o \in Orders : Fades(o)
      BY <1>3, ManagerStepTypes DEF Fades
    <2>. QED
      BY <2>1, OthersKeepCoupons
  <1>4. CASE CheckStep /\ UNCHANGED <<settings, coupon, lockedBy, counter, order, request>>
    BY <1>4, OthersKeepCoupons DEF Fades
  <1>. QED
    BY <1>1, <1>2, <1>3, <1>4, NextSteps

LEMMA CouponInit ==
  ASSUME Init
  PROVE  CouponInv
  <1>1. /\ \A o \in Orders : request[o].pc = "idle" /\ order[o].status = "absent"
        /\ \A k \in Coupons : lockedBy[k] = {}
    BY DEF Init, NoRow, Idle
  <1>2. \A k \in Coupons : OnTime(k) = {}
    BY <1>1 DEF OnTime, Uses
  <1>3. CouponLimit
    <2>. SUFFICES ASSUME NEW k \in Coupons PROVE Cardinality(OnTime(k)) <= Terms[k].maxUses
      BY DEF CouponLimit, OnTime
    <2>1. Cardinality(OnTime(k)) = 0
      BY <1>2, FS_EmptySet
    <2>. QED
      BY <2>1, CheckoutAssumption
  <1>. QED
    BY <1>1, <1>3 DEF CouponInv, At

-----------------------------------------------------------------------------
(* The theorems *)

\* The invariants of the money and of the coupons hold of every behaviour of any
\* number of orders, credits, coupons, carts and settings.
THEOREM CheckoutInductive == Spec => [](MoneyInv /\ CouponInv)
  <1>1. Init => MoneyInv /\ CouponInv
    BY MoneyInit, CouponInit
  <1>2. MoneyInv /\ CouponInv /\ [Next]_vars => (MoneyInv /\ CouponInv)'
    BY MoneyNext, CouponNext
  <1>. QED
    BY <1>1, <1>2, PTL DEF Spec

\* Every amount stays one: no balance, total or credit of an order goes below zero.
THEOREM TypeCorrect == Spec => []TypeOK
  <1>1. MoneyInv => TypeOK
    <2>. SUFFICES ASSUME MoneyInv PROVE TypeOK
      OBVIOUS
    <2>1. CreditsTypeOK
      BY CheckoutAssumption, CreditsAssumption DEF MoneyInv, Wallets, CreditsTypeOK
    <2>. QED
      BY <2>1 DEF MoneyInv, Types, Rows, Works, TypeOK
  <1>. QED
    BY <1>1, CheckoutInductive, PTL

\* CreditsService creates and loses no credit, however checkouts reserve it, give back
\* what is over, fail and undo, and orders end in any of their ways.
THEOREM CreditConservedHolds == Spec => []CreditConserved
  <1>1. MoneyInv => CreditConserved
    BY DEF MoneyInv
  <1>. QED
    BY <1>1, CheckoutInductive, PTL

\* An order at rest holds of the customer's credits what its row says: createPending,
\* rollbackPending, releaseStoreCredit and deleteOrder leave none of it behind.
THEOREM CreditFollowsOrderHolds == Spec => []CreditFollowsOrder
  <1>1. MoneyInv => CreditFollowsOrder
    <2>. SUFFICES ASSUME MoneyInv, NEW o \in Orders, At(o, "idle")
                  PROVE  Outstanding(o) = IF Exists(o) THEN order[o].credit ELSE 0
      BY DEF CreditFollowsOrder
    <2>1. Outstanding(o) = Held(o)
      BY DEF MoneyInv, Safe
    <2>2. Held(o) = IF Exists(o) THEN order[o].credit ELSE 0
      BY DEF Held, At, Late
    <2>. QED
      BY <2>1, <2>2
  <1>. QED
    BY <1>1, CheckoutInductive, PTL

\* The total and the credit of an order make up the price createPending computed, but
\* for the minimum charge of a Pix.
THEOREM PriceIsPaidHolds == Spec => []PriceIsPaid
  <1>1. MoneyInv => PriceIsPaid
    BY DEF MoneyInv, Safe, Paying, PriceIsPaid
  <1>. QED
    BY <1>1, CheckoutInductive, PTL

\* withLock("coupon:CODE") and the second look at the coupon keep it within maxUses.
THEOREM CouponLimitHolds == Spec => []CouponLimit
  <1>1. CouponInv => CouponLimit
    BY DEF CouponInv
  <1>. QED
    BY <1>1, CheckoutInductive, PTL

\* progressiveDiscount, which sorts the units by price, takes the discount by rank:
\* what a unit pays depends on the units dearer than it, not on the sort.
THEOREM ProgressiveByRankHolds == Spec => []ProgressiveByRank
  <1>1. MoneyInv => ProgressiveByRank
    <2>. SUFFICES ASSUME MoneyInv, NEW o \in Orders
                  PROVE  ProgressiveDiscount(Cart[o].lines, settings)
                            = RankDiscount(Cart[o].lines, settings)
      BY DEF ProgressiveByRank
    <2>1. settings.tiers \in Seq(Int)
      BY SavedTiers DEF MoneyInv, Types
    <2>2. IsList(Cart[o].lines)
      BY CheckoutAssumption
    <2>. QED
      BY <2>1, <2>2, DiscountByRank
  <1>. QED
    BY <1>1, CheckoutInductive, PTL

-----------------------------------------------------------------------------
(* The lock of a coupon *)

\* The session that runs fn() owns its key, alone.
OwnersRun ==
    \A r \in Requests : stage[r] \in Inside => owner[KeyOf[r]] = {r}

Holders == {r \in Requests : stage[r] \notin {"idle", "connect"}}

Queries == {r \in Requests : stage[r] = "query"}

Stages == {"idle", "connect", "lock", "unlock"} \cup Inside

SessionTypes ==
    /\ stage \in [Requests -> Stages]
    /\ owner \in [Keys -> SUBSET Requests]
    /\ free \in Nat

-----------------------------------------------------------------------------
(* Its owner *)

LEMMA SessionTypesInit == LockInit => SessionTypes
  BY LockAssumption DEF LockInit, SessionTypes, Stages

LEMMA SessionTypesStep == SessionTypes /\ [LockNext]_lockVars => SessionTypes'
  BY LockAssumption
     DEF SessionTypes, Stages, Inside, LockNext, lockVars, Start, Connect, Lock, BeginQuery, EndQuery,
         EndFn, ReleaseConnection, Move, TakeConnection, GiveConnection

LEMMA OwnersStep == SessionTypes /\ OwnersRun /\ [LockNext]_lockVars => OwnersRun'
  <1>. SUFFICES ASSUME SessionTypes, OwnersRun, LockNext
                PROVE  OwnersRun'
    BY DEF OwnersRun, lockVars, Inside
  <1>. USE LockAssumption DEF SessionTypes, Stages, OwnersRun, Inside, Move
  <1>1. ASSUME NEW r \in Requests, Start(r) \/ Connect(r) \/ BeginQuery(r)
                                   \/ EndQuery(r) \/ ReleaseConnection(r)
        PROVE  OwnersRun'
    BY <1>1 DEF Start, Connect, BeginQuery, EndQuery, ReleaseConnection
  <1>2. ASSUME NEW r \in Requests, Lock(r)
        PROVE  OwnersRun'
    BY <1>2 DEF Lock
  <1>3. ASSUME NEW r \in Requests, EndFn(r)
        PROVE  OwnersRun'
    BY <1>3 DEF EndFn
  <1>. QED
    BY <1>1, <1>2, <1>3 DEF LockNext

LEMMA OwnersAlways == LockSpec => [](SessionTypes /\ OwnersRun)
  <1>1. LockInit => OwnersRun
    BY DEF LockInit, OwnersRun, Inside
  <1>. QED
    BY <1>1, SessionTypesInit, SessionTypesStep, OwnersStep, PTL DEF LockSpec

\* Two requests with the same key never run their fn() at the same time.
THEOREM MutualExclusionHolds == LockSpec => []MutualExclusion
  <1>1. SessionTypes /\ OwnersRun => MutualExclusion
    BY DEF OwnersRun, MutualExclusion
  <1>. QED
    BY <1>1, OwnersAlways, PTL

-----------------------------------------------------------------------------
(* Connections *)

LEMMA Finite == IsFiniteSet(Holders) /\ IsFiniteSet(Queries)
  BY LockAssumption, FS_Subset DEF Holders, Queries

LEMMA AccountedStep == SessionTypes /\ ConnectionsAccounted /\ [LockNext]_lockVars => ConnectionsAccounted'
  <1>. SUFFICES ASSUME SessionTypes, ConnectionsAccounted, LockNext
                PROVE  ConnectionsAccounted'
    BY DEF ConnectionsAccounted, lockVars
  <1>. USE LockAssumption DEF SessionTypes
  <1>0. /\ ConnectionsAccounted <=> free = PoolSize - Cardinality(Holders) - Cardinality(Queries)
        /\ ConnectionsAccounted' <=> free' = PoolSize - Cardinality(Holders') - Cardinality(Queries')
    BY DEF ConnectionsAccounted, Holders, Queries
  <1>00. Cardinality(Holders) \in Nat /\ Cardinality(Queries) \in Nat
    BY Finite, FS_CardinalityType
  <1>1. ASSUME NEW r \in Requests, Start(r) \/ Lock(r) \/ EndFn(r)
        PROVE  ConnectionsAccounted'
    <2>1. Holders' = Holders /\ Queries' = Queries
      BY <1>1 DEF Start, Lock, EndFn, Move, Holders, Queries
    <2>. QED
      BY <1>0, <1>1, <2>1 DEF Start, Lock, EndFn
  <1>2. ASSUME NEW r \in Requests, Connect(r)
        PROVE  ConnectionsAccounted'
    <2>1. Holders' = Holders \cup {r} /\ r \notin Holders /\ Queries' = Queries
      BY <1>2 DEF Connect, Move, Holders, Queries
    <2>2. Cardinality(Holders') = Cardinality(Holders) + 1
      BY <2>1, Finite, FS_AddElement
    <2>. QED
      BY <1>0, <1>00, <1>2, <2>1, <2>2 DEF Connect, TakeConnection
  <1>3. ASSUME NEW r \in Requests, BeginQuery(r)
        PROVE  ConnectionsAccounted'
    <2>1. Queries' = Queries \cup {r} /\ r \notin Queries /\ Holders' = Holders
      BY <1>3 DEF BeginQuery, Move, Holders, Queries
    <2>2. Cardinality(Queries') = Cardinality(Queries) + 1
      BY <2>1, Finite, FS_AddElement
    <2>. QED
      BY <1>0, <1>00, <1>3, <2>1, <2>2 DEF BeginQuery, TakeConnection
  <1>4. ASSUME NEW r \in Requests, EndQuery(r)
        PROVE  ConnectionsAccounted'
    <2>1. Queries' = Queries \ {r} /\ r \in Queries /\ Holders' = Holders
      BY <1>4 DEF EndQuery, Move, Holders, Queries
    <2>2. Cardinality(Queries') = Cardinality(Queries) - 1
      BY <2>1, Finite, FS_RemoveElement
    <2>. QED
      BY <1>0, <1>00, <1>4, <2>1, <2>2 DEF EndQuery, GiveConnection
  <1>5. ASSUME NEW r \in Requests, ReleaseConnection(r)
        PROVE  ConnectionsAccounted'
    <2>1. Holders' = Holders \ {r} /\ r \in Holders /\ Queries' = Queries
      BY <1>5 DEF ReleaseConnection, Move, Holders, Queries
    <2>2. Cardinality(Holders') = Cardinality(Holders) - 1
      BY <2>1, Finite, FS_RemoveElement
    <2>. QED
      BY <1>0, <1>00, <1>5, <2>1, <2>2 DEF ReleaseConnection, GiveConnection
  <1>. QED
    BY <1>1, <1>2, <1>3, <1>4, <1>5 DEF LockNext

\* Whatever the requests do, the pool gets every connection back.
THEOREM ConnectionsAccountedHolds == LockSpec => []ConnectionsAccounted
  <1>1. LockInit => ConnectionsAccounted
    <2>. SUFFICES ASSUME LockInit PROVE ConnectionsAccounted
      OBVIOUS
    <2>1. Holders = {} /\ Queries = {}
      BY DEF LockInit, Holders, Queries
    <2>2. free = PoolSize - Cardinality(Holders) - Cardinality(Queries)
      BY <2>1, FS_EmptySet, LockAssumption DEF LockInit
    <2>. QED
      BY <2>2 DEF ConnectionsAccounted, Holders, Queries
  <1>. QED
    BY <1>1, SessionTypesInit, SessionTypesStep, AccountedStep, PTL DEF LockSpec

\* Every variable keeps its type: the pool never has more idle connections than
\* it was made with.
THEOREM LockTypeCorrect == LockSpec => []LockTypeOK
  <1>1. SessionTypes /\ ConnectionsAccounted => LockTypeOK
    <2>. SUFFICES ASSUME SessionTypes, ConnectionsAccounted PROVE LockTypeOK
      OBVIOUS
    <2>1. Cardinality(Holders) \in Nat /\ Cardinality(Queries) \in Nat
      BY Finite, FS_CardinalityType
    <2>2. free = PoolSize - Cardinality(Holders) - Cardinality(Queries)
      BY DEF ConnectionsAccounted, Holders, Queries
    <2>3. free \in 0 .. PoolSize
      BY <2>1, <2>2, LockAssumption DEF SessionTypes
    <2>. QED
      BY <2>3 DEF SessionTypes, LockTypeOK, Stages
  <1>. QED
    BY <1>1, OwnersAlways, ConnectionsAccountedHolds, PTL

=============================================================================
