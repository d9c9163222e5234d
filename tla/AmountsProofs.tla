---------------------------- MODULE AmountsProofs ----------------------------
(***************************************************************************)
(* The amounts of Sales for every finite set of products, orders and       *)
(* farmers: totals and subtotals belong together, and the reports account  *)
(* for each order once.                                                    *)
(***************************************************************************)
EXTENDS SalesProofs, SumProofs

-----------------------------------------------------------------------------
(***************************************************************************)
(* Rounding.                                                               *)
(***************************************************************************)

LEMMA RoundedNear ==
  ASSUME NEW x \in Nat
  PROVE  /\ Rounded(x) \in Nat
         /\ 1000 * Rounded(x) <= x + 500
         /\ x <= 1000 * Rounded(x) + 500
  BY DEF Rounded

LEMMA SubtotalNat ==
  ASSUME NEW quantity \in Nat, NEW unit \in Nat
  PROVE  Subtotal(quantity, unit) \in Nat
<1> DEFINE amount == quantity * unit
<1>1. amount \in Nat
  OBVIOUS
<1>2. Subtotal(quantity, unit) = Rounded(amount)
  BY DEF Subtotal
<1> HIDE DEF amount
<1>3. QED
  BY <1>1, <1>2, RoundedNear

\* Values that are half a penny apart, and their sums.
LEMMA RoundingsApart ==
  ASSUME NEW f, NEW s, NEW S, IsFiniteSet(S),
         \A x \in S : f[x] \in Int /\ s[x] \in Int
                      /\ 1000 * s[x] <= f[x] + 500 /\ f[x] <= 1000 * s[x] + 500
  PROVE  /\ 1000 * Sum(s, S) <= Sum(f, S) + 500 * Cardinality(S)
         /\ Sum(f, S) <= 1000 * Sum(s, S) + 500 * Cardinality(S)
<1> DEFINE Near(T) == /\ 1000 * Sum(s, T) <= Sum(f, T) + 500 * Cardinality(T)
                      /\ Sum(f, T) <= 1000 * Sum(s, T) + 500 * Cardinality(T)
           B == {T \in SUBSET S : ~Near(T)}
<1> SUFFICES ASSUME B # {} PROVE FALSE
  OBVIOUS
<1>0. B \in SUBSET (SUBSET S)
  OBVIOUS
<1>1. PICK T \in B : \A U \in SUBSET T : U # T => U \notin B
  <2> HIDE DEF B
  <2>1. QED
    BY <1>0, SmallestSet
<1>2. T \in SUBSET S /\ ~Near(T) /\ IsFiniteSet(T)
  BY FS_Subset
<1> HIDE DEF B
<1>3. T # {}
  <2> SUFFICES ASSUME T = {} PROVE FALSE
    OBVIOUS
  <2>1. Sum(f, T) = 0 /\ Sum(s, T) = 0
    BY SumEmpty
  <2>2. Cardinality(T) = 0
    BY FS_EmptySet
  <2>3. QED
    BY <1>2, <2>1, <2>2
<1> DEFINE e == One(T)
           U == T \ {e}
<1>4. e \in T
  BY <1>3, OneMember
<1>5. Sum(f, T) = f[e] + Sum(f, U)
  BY <1>2, <1>3, SumFolds
<1>6. Sum(s, T) = s[e] + Sum(s, U)
  BY <1>2, <1>3, SumFolds
<1>7. U \in SUBSET S /\ Near(U)
  BY <1>1, <1>2, <1>4 DEF B
<1>8. IsFiniteSet(U) /\ Cardinality(U) = Cardinality(T) - 1
  BY <1>2, <1>4, FS_RemoveElement
<1>9. Sum(f, U) \in Int /\ Sum(s, U) \in Int
  BY <1>7, <1>8, SumInt
<1>10. Cardinality(T) \in Int
  BY <1>2, FS_CardinalityType
<1>11. f[e] \in Int /\ s[e] \in Int /\ 1000 * s[e] <= f[e] + 500 /\ f[e] <= 1000 * s[e] + 500
  BY <1>2, <1>4
<1> HIDE DEF e, U
<1>12. QED
  BY <1>2, <1>5, <1>6, <1>7, <1>8, <1>9, <1>10, <1>11

\* Sums whose parts are near are as near as the parts together.
LEMMA SumsNear ==
  ASSUME NEW f, NEW g, NEW w, NEW S, IsFiniteSet(S),
         \A x \in S : f[x] \in Int /\ g[x] \in Int /\ w[x] \in Int
                      /\ 2 * f[x] <= 2 * g[x] + w[x] /\ 2 * g[x] <= 2 * f[x] + w[x]
  PROVE  /\ 2 * Sum(f, S) <= 2 * Sum(g, S) + Sum(w, S)
         /\ 2 * Sum(g, S) <= 2 * Sum(f, S) + Sum(w, S)
<1> DEFINE Near(T) == /\ 2 * Sum(f, T) <= 2 * Sum(g, T) + Sum(w, T)
                      /\ 2 * Sum(g, T) <= 2 * Sum(f, T) + Sum(w, T)
           B == {T \in SUBSET S : ~Near(T)}
<1> SUFFICES ASSUME B # {} PROVE FALSE
  OBVIOUS
<1>0. B \in SUBSET (SUBSET S)
  OBVIOUS
<1>1. PICK T \in B : \A U \in SUBSET T : U # T => U \notin B
  <2> HIDE DEF B
  <2>1. QED
    BY <1>0, SmallestSet
<1>2. T \in SUBSET S /\ ~Near(T) /\ IsFiniteSet(T)
  BY FS_Subset
<1> HIDE DEF B
<1>3. T # {}
  <2> SUFFICES ASSUME T = {} PROVE FALSE
    OBVIOUS
  <2>1. Sum(f, T) = 0 /\ Sum(g, T) = 0 /\ Sum(w, T) = 0
    BY SumEmpty
  <2>2. QED
    BY <1>2, <2>1
<1> DEFINE e == One(T)
           U == T \ {e}
<1>4. e \in T
  BY <1>3, OneMember
<1>5. /\ Sum(f, T) = f[e] + Sum(f, U)
      /\ Sum(g, T) = g[e] + Sum(g, U)
      /\ Sum(w, T) = w[e] + Sum(w, U)
  BY <1>2, <1>3, SumFolds
<1>6. U \in SUBSET S /\ Near(U)
  BY <1>1, <1>2, <1>4 DEF B
<1>7. IsFiniteSet(U)
  BY <1>2, FS_Subset
<1>8. Sum(f, U) \in Int /\ Sum(g, U) \in Int /\ Sum(w, U) \in Int
  BY <1>6, <1>7, SumInt
<1>9. /\ f[e] \in Int /\ g[e] \in Int /\ w[e] \in Int
      /\ 2 * f[e] <= 2 * g[e] + w[e] /\ 2 * g[e] <= 2 * f[e] + w[e]
  BY <1>2, <1>4
<1> HIDE DEF e, U
<1>10. QED
  BY <1>2, <1>5, <1>6, <1>8, <1>9

-----------------------------------------------------------------------------
(***************************************************************************)
(* The amounts of one order.                                               *)
(***************************************************************************)

\* The exact amounts of the lines.
Exact(row) == [p \in Products |-> row.quantity[p] * row.unit[p]]

LEMMA ExactNat ==
  ASSUME NEW row, row.quantity \in [Products -> Nat], row.unit \in [Products -> Nat]
  PROVE  /\ \A p \in Products : Exact(row)[p] \in Nat
         /\ IsFiniteSet(Items(row)) /\ Items(row) \subseteq Products
         /\ Sum(Exact(row), Items(row)) \in Nat
         /\ TotalOf(row) = Rounded(Sum(Exact(row), Items(row)))
<1>1. ASSUME NEW p \in Products PROVE Exact(row)[p] \in Nat
  <2>1. row.quantity[p] \in Nat /\ row.unit[p] \in Nat
    OBVIOUS
  <2>2. row.quantity[p] * row.unit[p] \in Nat
    BY <2>1
  <2>3. QED
    BY <2>2 DEF Exact
<1>2. Items(row) \subseteq Products
  BY DEF Items
<1>3. IsFiniteSet(Items(row))
  BY <1>2, FiniteAssumption, FS_Subset
<1>4. Sum(Exact(row), Items(row)) \in Nat
  BY <1>1, <1>2, <1>3, SumNat
<1>5. TotalOf(row) = Rounded(Sum(Exact(row), Items(row)))
  BY DEF TotalOf, Exact, Sum
<1>6. QED
  BY <1>1, <1>2, <1>3, <1>4, <1>5

\* What the transaction stores.
Priced(row) ==
  /\ row.subtotal = [p \in Products |-> Subtotal(row.quantity[p], row.unit[p])]
  /\ row.total = TotalOf(row)

LEMMA PricedAgrees ==
  ASSUME NEW row \in Sale, Priced(row)
  PROVE  /\ 2 * SumOfSubtotals(row) <= 2 * row.total + Cardinality(Items(row)) + 1
         /\ 2 * row.total <= 2 * SumOfSubtotals(row) + Cardinality(Items(row)) + 1
         /\ Cardinality(Items(row)) = 1 => SumOfSubtotals(row) = row.total
         /\ SumOfSubtotals(row) \in Nat /\ Cardinality(Items(row)) \in Nat
<1> DEFINE S == Items(row)
           f == Exact(row)
           s == row.subtotal
<1>1. row.quantity \in [Products -> Nat] /\ row.unit \in [Products -> Nat]
  BY DEF Sale
<1>2. /\ \A p \in Products : f[p] \in Nat
      /\ IsFiniteSet(S) /\ S \subseteq Products
      /\ Sum(f, S) \in Nat
      /\ row.total = Rounded(Sum(f, S))
  BY <1>1, ExactNat DEF Priced
<1>3. \A p \in Products : s[p] = Rounded(f[p])
  BY DEF Priced, Subtotal, Exact
<1>4. SumOfSubtotals(row) = Sum(s, S)
  BY DEF SumOfSubtotals, Sum
<1> HIDE DEF S, f, s
<1>5. \A p \in Products : s[p] \in Nat /\ 1000 * s[p] <= f[p] + 500 /\ f[p] <= 1000 * s[p] + 500
  <2> SUFFICES ASSUME NEW p \in Products
               PROVE  s[p] \in Nat /\ 1000 * s[p] <= f[p] + 500 /\ f[p] <= 1000 * s[p] + 500
    OBVIOUS
  <2>1. f[p] \in Nat /\ s[p] = Rounded(f[p])
    BY <1>2, <1>3
  <2>2. QED
    BY <2>1, RoundedNear
<1>6. /\ 1000 * Sum(s, S) <= Sum(f, S) + 500 * Cardinality(S)
      /\ Sum(f, S) <= 1000 * Sum(s, S) + 500 * Cardinality(S)
  <2>1. \A p \in S : f[p] \in Int /\ s[p] \in Int
                     /\ 1000 * s[p] <= f[p] + 500 /\ f[p] <= 1000 * s[p] + 500
    BY <1>2, <1>5
  <2>2. QED
    BY <1>2, <2>1, RoundingsApart
<1>7. /\ row.total \in Nat
      /\ 1000 * row.total <= Sum(f, S) + 500
      /\ Sum(f, S) <= 1000 * row.total + 500
  BY <1>2, RoundedNear
<1>8. Sum(s, S) \in Nat
  BY <1>2, <1>5, SumNat
<1>9. Cardinality(S) \in Nat
  BY <1>2, FS_CardinalityType
<1>10. ASSUME Cardinality(S) = 1 PROVE Sum(s, S) = row.total
  <2>1. PICK p : S = {p}
    BY <1>2, <1>10, FS_Singleton
  <2>2. p \in S /\ p \in Products /\ S \ {p} = {}
    BY <1>2, <2>1
  <2>3. Sum(f, S) = f[p] + 0
    <3>1. \A x \in S : f[x] \in Int
      BY <1>2
    <3>2. Sum(f, S) = f[p] + Sum(f, S \ {p})
      BY <1>2, <2>2, <3>1, SumSplit
    <3>3. QED
      BY <2>2, <3>2, SumEmpty
  <2>4. Sum(s, S) = s[p] + 0
    <3>1. \A x \in S : s[x] \in Int
      BY <1>2, <1>5
    <3>2. Sum(s, S) = s[p] + Sum(s, S \ {p})
      BY <1>2, <2>2, <3>1, SumSplit
    <3>3. QED
      BY <2>2, <3>2, SumEmpty
  <2>5. f[p] \in Nat /\ s[p] \in Nat /\ s[p] = Rounded(f[p])
    BY <1>2, <1>3, <1>5, <2>2
  <2>6. QED
    BY <1>2, <2>3, <2>4, <2>5
<1>11. /\ 2 * Sum(s, S) <= 2 * row.total + Cardinality(S) + 1
       /\ 2 * row.total <= 2 * Sum(s, S) + Cardinality(S) + 1
  BY <1>2, <1>6, <1>7, <1>8, <1>9
<1>12. QED
  BY <1>4, <1>8, <1>9, <1>10, <1>11 DEF S

-----------------------------------------------------------------------------
(***************************************************************************)
(* The invariant: orders hold what their requests have read, and stay.     *)
(***************************************************************************)

\* There are the products of a row or of a request.
Sells(row) == row.first \in Items(row) /\ \A p \in Items(row) : product[p] # None

SalesInv ==
  /\ IInv
  /\ sale \in [Keys -> Sale \cup {None}]
  /\ buying \in [Buyers -> Buying \cup {None}]
  /\ now \in 0..End
  /\ \A b \in Buyers : buying[b] # None => Sells(buying[b].purchase)
  /\ \A k \in Keys : sale[k] # None =>
       Sells(sale[k]) /\ Priced(sale[k]) /\ sale[k].placed <= now

LEMMA SalesStarts == Init => SalesInv
<1> SUFFICES ASSUME Init PROVE SalesInv
  OBVIOUS
<1>1. IInv
  BY InitHolds
<1>2. 0 \in 0..End
  BY SalesAssumption
<1>3. QED
  BY <1>1, <1>2 DEF Init, SalesInv

\* Nothing removes a product.
LEMMA ProductsStay ==
  ASSUME IInv, [Next]_vars, NEW p \in Products, product[p] # None
  PROVE  product'[p] # None
<1>1. product \in [Products -> Product \cup {None}]
  BY DEF IInv, CatalogueTypeOK
<1>2. ASSUME NEW q \in Products, product[q] = None, NEW row,
             product' = [product EXCEPT ![q] = row]
      PROVE  product'[p] # None
  BY <1>1, <1>2
<1>3. ASSUME NEW q \in Products, NEW row \in Product, product' = [product EXCEPT ![q] = row]
      PROVE  product'[p] # None
  BY <1>1, <1>3, CatalogueAssumption
<1>4. CASE ProductStep
  <2>1. ASSUME NEW q \in Products, NEW f \in Farmers, NEW c \in Categories, NEW price \in Prices,
               CreateProduct(q, f, c, price)
        PROVE  product'[p] # None
    BY <1>2, <2>1 DEF CreateProduct
  <2>2. ASSUME NEW q \in Products, NEW c \in Categories \cup {None}, NEW price \in Prices \cup {None},
               UpdateProduct(q, c, price)
        PROVE  product'[p] # None
    <3> DEFINE row == [product[q] EXCEPT !.category = IF c = None THEN @ ELSE c,
                                         !.price    = IF price = None THEN @ ELSE price]
    <3>1. product[q] \in Product
      BY <1>1, <2>2 DEF UpdateProduct, Offered
    <3>2. row \in Product
      BY <3>1 DEF Product
    <3>3. product' = [product EXCEPT ![q] = row]
      BY <1>1, <2>2 DEF UpdateProduct
    <3> HIDE DEF row
    <3>4. QED
      BY <1>3, <3>2, <3>3
  <2>3. ASSUME NEW q \in Products, DeleteProduct(q)
        PROVE  product'[p] # None
    <3> DEFINE row == [product[q] EXCEPT !.offered = FALSE]
    <3>1. product[q] \in Product
      BY <1>1, <2>3 DEF DeleteProduct, Offered
    <3>2. row \in Product
      BY <3>1 DEF Product
    <3>3. product' = [product EXCEPT ![q] = row]
      BY <1>1, <2>3 DEF DeleteProduct
    <3> HIDE DEF row
    <3>4. QED
      BY <1>3, <3>2, <3>3
  <2>4. QED
    BY <1>4, <2>1, <2>2, <2>3 DEF ProductStep
<1>5. CASE CategoryStep
  BY <1>5 DEF CategoryStep, BeginCategory, InsertCategory, DropCategory
<1>6. SalesStep => UNCHANGED product
  BY DEF SalesStep, ReadCart, StoreSale, DropBuying, SetCancelled, Tick, catalogueVars
<1>7. QED
  BY <1>4, <1>5, <1>6 DEF Next, vars, catalogueVars

\* What is sold stays sold.
LEMMA SellsStays ==
  ASSUME IInv, [Next]_vars, NEW row, Sells(row)
  PROVE  row.first \in Items(row) /\ \A p \in Items(row) : product'[p] # None
  BY ProductsStay DEF Sells, Items

\* A step keeps the invariant if it keeps the orders and requests that there
\* were, or writes one of them well.
LEMMA SaleWritten ==
  ASSUME SalesInv, [Next]_vars, NEW k \in Keys, NEW row \in Sale,
         Sells(row), Priced(row), row.placed <= now, now' = now,
         sale' = [sale EXCEPT ![k] = row]
  PROVE  /\ sale' \in [Keys -> Sale \cup {None}]
         /\ \A j \in Keys : sale'[j] # None =>
              /\ sale'[j].first \in Items(sale'[j])
              /\ \A p \in Items(sale'[j]) : product'[p] # None
              /\ Priced(sale'[j]) /\ sale'[j].placed <= now'
<1>1. sale' \in [Keys -> Sale \cup {None}]
  BY DEF SalesInv
<1>2. ASSUME NEW j \in Keys, sale'[j] # None
      PROVE  Sells(sale'[j]) /\ Priced(sale'[j]) /\ sale'[j].placed <= now'
  <2>1. sale'[j] = IF j = k THEN row ELSE sale[j]
    BY DEF SalesInv
  <2>2. CASE j = k
    BY <2>1, <2>2
  <2>3. CASE j # k
    BY <1>2, <2>1, <2>3 DEF SalesInv
  <2>4. QED
    BY <2>2, <2>3
<1>3. IInv
  BY DEF SalesInv
<1>4. QED
  BY <1>1, <1>2, <1>3, SellsStays

\* Orders that a step leaves alone.
LEMMA SalesKept ==
  ASSUME SalesInv, [Next]_vars, sale' = sale, now' \in Nat, now <= now'
  PROVE  /\ sale' \in [Keys -> Sale \cup {None}]
         /\ \A j \in Keys : sale'[j] # None =>
              /\ sale'[j].first \in Items(sale'[j])
              /\ \A p \in Items(sale'[j]) : product'[p] # None
              /\ Priced(sale'[j]) /\ sale'[j].placed <= now'
<1>1. IInv /\ sale \in [Keys -> Sale \cup {None}] /\ now \in Nat
  BY SalesAssumption DEF SalesInv
<1>2. ASSUME NEW j \in Keys, sale[j] # None
      PROVE  sale[j].placed \in Nat /\ Sells(sale[j]) /\ Priced(sale[j]) /\ sale[j].placed <= now
  BY <1>1, <1>2, SalesAssumption DEF SalesInv, Sale
<1>3. QED
  BY <1>1, <1>2, SellsStays

\* Requests, likewise.
LEMMA BuyingSame ==
  ASSUME SalesInv, [Next]_vars, buying' = buying
  PROVE  /\ buying' \in [Buyers -> Buying \cup {None}]
         /\ \A d \in Buyers : buying'[d] # None =>
              /\ buying'[d].purchase.first \in Items(buying'[d].purchase)
              /\ \A p \in Items(buying'[d].purchase) : product'[p] # None
<1>1. IInv /\ buying \in [Buyers -> Buying \cup {None}]
  BY DEF SalesInv
<1>2. ASSUME NEW d \in Buyers, buying[d] # None
      PROVE  Sells(buying[d].purchase)
  BY <1>2 DEF SalesInv
<1>3. QED
  BY <1>1, <1>2, SellsStays

LEMMA BuyingKept ==
  ASSUME SalesInv, [Next]_vars, NEW b \in Buyers,
         NEW r \in Buying \cup {None}, r # None => Sells(r.purchase),
         buying' = [buying EXCEPT ![b] = r]
  PROVE  /\ buying' \in [Buyers -> Buying \cup {None}]
         /\ \A d \in Buyers : buying'[d] # None =>
              /\ buying'[d].purchase.first \in Items(buying'[d].purchase)
              /\ \A p \in Items(buying'[d].purchase) : product'[p] # None
<1>1. IInv /\ buying \in [Buyers -> Buying \cup {None}]
  BY DEF SalesInv
<1>2. buying' \in [Buyers -> Buying \cup {None}]
  BY <1>1
<1>3. ASSUME NEW d \in Buyers, buying'[d] # None
      PROVE  Sells(buying'[d].purchase)
  <2>1. buying'[d] = buying[d] \/ buying'[d] = r
    BY <1>1
  <2>2. QED
    BY <1>3, <2>1 DEF SalesInv
<1>4. QED
  BY <1>1, <1>2, <1>3, SellsStays

\* How the parts make the invariant.
LEMMA SalesInvNext ==
  ASSUME IInv', now' \in 0..End,
         sale' \in [Keys -> Sale \cup {None}],
         buying' \in [Buyers -> Buying \cup {None}],
         \A d \in Buyers : buying'[d] # None =>
           /\ buying'[d].purchase.first \in Items(buying'[d].purchase)
           /\ \A p \in Items(buying'[d].purchase) : product'[p] # None,
         \A j \in Keys : sale'[j] # None =>
           /\ sale'[j].first \in Items(sale'[j])
           /\ \A p \in Items(sale'[j]) : product'[p] # None
           /\ Priced(sale'[j]) /\ sale'[j].placed <= now'
  PROVE  SalesInv'
<1>1. ASSUME NEW d \in Buyers, buying'[d] # None
      PROVE  Sells(buying[d].purchase)'
  BY <1>1 DEF Sells, Items
<1>2. ASSUME NEW j \in Keys, sale'[j] # None
      PROVE  Sells(sale[j])'
  BY <1>2 DEF Sells, Items
<1>3. ASSUME NEW j \in Keys, sale'[j] # None
      PROVE  Priced(sale[j])' /\ (sale[j].placed <= now)'
  BY <1>3 DEF Priced, TotalOf, Items
<1>4. QED
  BY <1>1, <1>2, <1>3 DEF SalesInv

LEMMA ReadCartKeeps ==
  ASSUME SalesInv, [Next]_vars, NEW b \in Buyers, NEW k \in Keys, NEW g \in Guests,
         NEW quantity \in Carts, ReadCart(b, k, g, quantity)
  PROVE  SalesInv'
<1>1. PICK first \in {p \in Products : quantity[p] > 0} :
        buying' = [buying EXCEPT ![b] =
         [key |-> k, guest |-> g,
          purchase |->
            [quantity |-> quantity,
             unit |-> [p \in Products |-> IF quantity[p] > 0 THEN product[p].price ELSE 0],
             first |-> first]]]
  BY DEF ReadCart
<1> DEFINE unit == [p \in Products |-> IF quantity[p] > 0 THEN product[p].price ELSE 0]
           bought == [quantity |-> quantity, unit |-> unit, first |-> first]
           r == [key |-> k, guest |-> g, purchase |-> bought]
<1>2. quantity \in [Products -> Nat]
  BY SalesAssumption
<1>3. \A p \in Products : quantity[p] > 0 => product[p] # None
  BY DEF ReadCart
<1>4. unit \in [Products -> Nat]
  <2>1. ASSUME NEW p \in Products, quantity[p] > 0 PROVE product[p].price \in Nat
    <3>1. product[p] \in Product
      BY <1>3, <2>1 DEF SalesInv, IInv, CatalogueTypeOK
    <3>2. QED
      BY <3>1, CatalogueAssumption DEF Product
  <2>2. QED
    BY <2>1
<1>5. bought \in Purchase
  BY <1>2, <1>4 DEF Purchase
<1>6. Items(bought) = {p \in Products : quantity[p] > 0}
  BY DEF Items
<1>7. Sells(bought)
  BY <1>3, <1>6 DEF Sells
<1>8. buying' = [buying EXCEPT ![b] = r]
  BY <1>1
<1> HIDE DEF bought, unit
<1>9. r \in Buying /\ r.purchase = bought
  BY <1>5 DEF Buying
<1>10. sale' = sale /\ now' = now
  BY DEF ReadCart
<1>11. now \in Nat /\ now \in 0..End
  BY SalesAssumption DEF SalesInv
<1>12. IInv'
  BY StepKeeps DEF SalesInv
<1> HIDE DEF r
<1>13. /\ buying' \in [Buyers -> Buying \cup {None}]
       /\ \A d \in Buyers : buying'[d] # None =>
            /\ buying'[d].purchase.first \in Items(buying'[d].purchase)
            /\ \A p \in Items(buying'[d].purchase) : product'[p] # None
  BY <1>7, <1>8, <1>9, BuyingKept
<1>14. /\ sale' \in [Keys -> Sale \cup {None}]
       /\ \A j \in Keys : sale'[j] # None =>
            /\ sale'[j].first \in Items(sale'[j])
            /\ \A p \in Items(sale'[j]) : product'[p] # None
            /\ Priced(sale'[j]) /\ sale'[j].placed <= now'
  BY <1>10, <1>11, SalesKept
<1>15. QED
  BY <1>10, <1>11, <1>12, <1>13, <1>14, SalesInvNext

LEMMA StoreSaleKeeps ==
  ASSUME SalesInv, [Next]_vars, NEW b \in Buyers, StoreSale(b)
  PROVE  SalesInv'
<1> DEFINE k == buying[b].key
           bought == buying[b].purchase
           row == [quantity |-> bought.quantity, unit |-> bought.unit, first |-> bought.first,
                   guest |-> buying[b].guest,
                   subtotal |-> [p \in Products |-> Subtotal(bought.quantity[p], bought.unit[p])],
                   total |-> TotalOf(bought), placed |-> now, cancelled |-> FALSE]
<1>1. buying[b] \in Buying /\ Sells(bought)
  BY DEF StoreSale, SalesInv
<1>2. k \in Keys /\ bought \in Purchase /\ buying[b].guest \in Guests
  BY <1>1 DEF Buying
<1>3. now \in Nat /\ now \in 0..End
  BY SalesAssumption DEF SalesInv
<1>4. bought.quantity \in [Products -> Nat] /\ bought.unit \in [Products -> Nat]
      /\ bought.first \in Products
  BY <1>2 DEF Purchase
<1>5. TotalOf(bought) \in Nat
  BY <1>4, ExactNat, RoundedNear
<1>6. \A p \in Products : Subtotal(bought.quantity[p], bought.unit[p]) \in Nat
  <2> SUFFICES ASSUME NEW p \in Products
               PROVE  Subtotal(bought.quantity[p], bought.unit[p]) \in Nat
    OBVIOUS
  <2>1. bought.quantity[p] \in Nat /\ bought.unit[p] \in Nat
    BY <1>4
  <2> HIDE DEF bought
  <2>2. QED
    BY <2>1, SubtotalNat
<1>7. sale' = sale \/ sale' = [sale EXCEPT ![k] = row]
  BY DEF StoreSale, UnitPrices
<1>8. buying' = [buying EXCEPT ![b] = None] /\ now' = now
  BY DEF StoreSale
<1>9. row \in Sale
  <2> HIDE DEF bought, k
  <2>1. QED
    BY <1>2, <1>3, <1>4, <1>5, <1>6 DEF Sale
<1>10. row.quantity = bought.quantity /\ row.unit = bought.unit /\ row.first = bought.first
       /\ row.placed = now /\ row.total = TotalOf(bought)
       /\ row.subtotal = [p \in Products |-> Subtotal(bought.quantity[p], bought.unit[p])]
  OBVIOUS
<1> HIDE DEF row, bought, k
<1>11. Items(row) = Items(bought) /\ TotalOf(row) = TotalOf(bought)
  BY <1>10 DEF Items, TotalOf
<1>12. Sells(row)
  BY <1>1, <1>10, <1>11 DEF Sells
<1>13. Priced(row)
  BY <1>10, <1>11 DEF Priced
<1>14. /\ sale' \in [Keys -> Sale \cup {None}]
       /\ \A j \in Keys : sale'[j] # None =>
            /\ sale'[j].first \in Items(sale'[j])
            /\ \A p \in Items(sale'[j]) : product'[p] # None
            /\ Priced(sale'[j]) /\ sale'[j].placed <= now'
  <2>1. CASE sale' = sale
    BY <1>3, <1>8, <2>1, SalesKept
  <2>2. CASE sale' = [sale EXCEPT ![k] = row]
    <3>1. row.placed <= now
      BY <1>3, <1>10
    <3>2. QED
      BY <1>2, <1>8, <1>9, <1>12, <1>13, <2>2, <3>1, SaleWritten
  <2>3. QED
    BY <1>7, <2>1, <2>2
<1>15. /\ buying' \in [Buyers -> Buying \cup {None}]
       /\ \A d \in Buyers : buying'[d] # None =>
            /\ buying'[d].purchase.first \in Items(buying'[d].purchase)
            /\ \A p \in Items(buying'[d].purchase) : product'[p] # None
  BY <1>8, BuyingKept
<1>16. IInv'
  BY StepKeeps DEF SalesInv
<1>17. QED
  BY <1>3, <1>8, <1>14, <1>15, <1>16, SalesInvNext

LEMMA SetCancelledKeeps ==
  ASSUME SalesInv, [Next]_vars, NEW k \in Keys, NEW cancelled \in BOOLEAN,
         SetCancelled(k, cancelled)
  PROVE  SalesInv'
<1> DEFINE row == [sale[k] EXCEPT !.cancelled = cancelled]
<1>1. sale[k] \in Sale /\ Sells(sale[k]) /\ Priced(sale[k]) /\ sale[k].placed <= now
  BY DEF SetCancelled, SalesInv
<1>2. row \in Sale /\ row.quantity = sale[k].quantity /\ row.unit = sale[k].unit
      /\ row.first = sale[k].first /\ row.placed = sale[k].placed
      /\ row.total = sale[k].total /\ row.subtotal = sale[k].subtotal
  BY <1>1 DEF Sale
<1>3. sale' = [sale EXCEPT ![k] = row]
  BY DEF SetCancelled, SalesInv
<1>4. buying' = buying /\ now' = now
  BY DEF SetCancelled
<1> HIDE DEF row
<1>5. Items(row) = Items(sale[k]) /\ TotalOf(row) = TotalOf(sale[k])
  BY <1>2 DEF Items, TotalOf
<1>6. Sells(row)
  BY <1>1, <1>2, <1>5 DEF Sells
<1>7. Priced(row)
  BY <1>1, <1>2, <1>5 DEF Priced
<1>8. row.placed <= now
  BY <1>1, <1>2
<1>9. /\ sale' \in [Keys -> Sale \cup {None}]
      /\ \A j \in Keys : sale'[j] # None =>
           /\ sale'[j].first \in Items(sale'[j])
           /\ \A p \in Items(sale'[j]) : product'[p] # None
           /\ Priced(sale'[j]) /\ sale'[j].placed <= now'
  BY <1>2, <1>3, <1>4, <1>6, <1>7, <1>8, SaleWritten
<1>10. /\ buying' \in [Buyers -> Buying \cup {None}]
       /\ \A d \in Buyers : buying'[d] # None =>
            /\ buying'[d].purchase.first \in Items(buying'[d].purchase)
            /\ \A p \in Items(buying'[d].purchase) : product'[p] # None
  BY <1>4, BuyingSame
<1>11. IInv'
  BY StepKeeps DEF SalesInv
<1>12. now \in 0..End
  BY DEF SalesInv
<1>13. QED
  BY <1>4, <1>9, <1>10, <1>11, <1>12, SalesInvNext

LEMMA DropBuyingKeeps ==
  ASSUME SalesInv, [Next]_vars, NEW b \in Buyers, DropBuying(b)
  PROVE  SalesInv'
<1>1. buying' = [buying EXCEPT ![b] = None] /\ sale' = sale /\ now' = now
  BY DEF DropBuying
<1>2. now \in Nat /\ now \in 0..End
  BY SalesAssumption DEF SalesInv
<1>3. IInv'
  BY StepKeeps DEF SalesInv
<1>4. /\ buying' \in [Buyers -> Buying \cup {None}]
      /\ \A d \in Buyers : buying'[d] # None =>
           /\ buying'[d].purchase.first \in Items(buying'[d].purchase)
           /\ \A p \in Items(buying'[d].purchase) : product'[p] # None
  BY <1>1, BuyingKept
<1>5. /\ sale' \in [Keys -> Sale \cup {None}]
      /\ \A j \in Keys : sale'[j] # None =>
           /\ sale'[j].first \in Items(sale'[j])
           /\ \A p \in Items(sale'[j]) : product'[p] # None
           /\ Priced(sale'[j]) /\ sale'[j].placed <= now'
  BY <1>1, <1>2, SalesKept
<1>6. QED
  BY <1>1, <1>2, <1>3, <1>4, <1>5, SalesInvNext

\* Time passes, the catalogue changes, or nothing happens.
LEMMA OthersKeep ==
  ASSUME SalesInv, [Next]_vars, sale' = sale, buying' = buying,
         now' \in 0..End, now <= now'
  PROVE  SalesInv'
<1>1. now' \in Nat
  BY SalesAssumption
<1>2. IInv'
  BY StepKeeps DEF SalesInv
<1>3. /\ buying' \in [Buyers -> Buying \cup {None}]
      /\ \A d \in Buyers : buying'[d] # None =>
           /\ buying'[d].purchase.first \in Items(buying'[d].purchase)
           /\ \A p \in Items(buying'[d].purchase) : product'[p] # None
  BY BuyingSame
<1>4. /\ sale' \in [Keys -> Sale \cup {None}]
      /\ \A j \in Keys : sale'[j] # None =>
           /\ sale'[j].first \in Items(sale'[j])
           /\ \A p \in Items(sale'[j]) : product'[p] # None
           /\ Priced(sale'[j]) /\ sale'[j].placed <= now'
  BY <1>1, SalesKept
<1>5. QED
  BY <1>2, <1>3, <1>4, SalesInvNext

LEMMA SalesStays == SalesInv /\ [Next]_vars => SalesInv'
<1> SUFFICES ASSUME SalesInv, [Next]_vars PROVE SalesInv'
  OBVIOUS
<1>1. now \in 0..End /\ now \in Nat /\ End \in Nat
  BY SalesAssumption DEF SalesInv
<1>2. CASE UNCHANGED salesVars
  BY <1>1, <1>2, OthersKeep DEF salesVars
<1>3. CASE SalesStep
  <2>1. CASE Tick
    BY <1>1, <2>1, OthersKeep DEF Tick
  <2>2. QED
    BY <1>3, <2>1, ReadCartKeeps, StoreSaleKeeps, SetCancelledKeeps, DropBuyingKeeps
       DEF SalesStep
<1>4. QED
  BY <1>2, <1>3 DEF Next, vars

LEMMA AlwaysSales == Spec => []SalesInv
  BY SalesStarts, SalesStays, PTL DEF Spec

\* Catalogue, orders and requests stay well formed, and orders are of products
\* that there are.
THEOREM SalesTypeCorrect == Spec => []SalesTypeOK
<1>1. SalesInv => SalesTypeOK
  BY DEF SalesInv, SalesTypeOK, IInv, Sells
<1>2. QED
  BY <1>1, AlwaysSales, PTL

LEMMA DistanceBound ==
  ASSUME NEW a \in Int, NEW b \in Int, NEW w \in Int,
         2 * a <= 2 * b + w, 2 * b <= 2 * a + w
  PROVE  2 * Distance(a, b) <= w
  BY DEF Distance

\* The total that an order was stored with is that of the items it was stored
\* with, and their subtotals are within half a penny each of it, whatever
\* happens to the prices (place_order in routes/v1/orders.rs).
THEOREM AmountsAlwaysAgree == Spec => []AmountsAgree
<1>1. ASSUME SalesInv PROVE AmountsAgree
  <2> SUFFICES ASSUME NEW k \in Keys, sale[k] # None
               PROVE  /\ sale[k].total = TotalOf(sale[k])
                      /\ 2 * Distance(SumOfSubtotals(sale[k]), sale[k].total)
                           <= Cardinality(Items(sale[k])) + 1
                      /\ Cardinality(Items(sale[k])) = 1
                           => SumOfSubtotals(sale[k]) = sale[k].total
    BY DEF AmountsAgree
  <2>1. sale[k] \in Sale /\ Priced(sale[k])
    BY <1>1 DEF SalesInv
  <2>2. sale[k].total \in Nat /\ sale[k].total = TotalOf(sale[k])
    BY <2>1 DEF Sale, Priced
  <2>3. /\ 2 * SumOfSubtotals(sale[k]) <= 2 * sale[k].total + Cardinality(Items(sale[k])) + 1
        /\ 2 * sale[k].total <= 2 * SumOfSubtotals(sale[k]) + Cardinality(Items(sale[k])) + 1
        /\ Cardinality(Items(sale[k])) = 1 => SumOfSubtotals(sale[k]) = sale[k].total
        /\ SumOfSubtotals(sale[k]) \in Nat /\ Cardinality(Items(sale[k])) \in Nat
    BY <2>1, PricedAgrees
  <2>4. 2 * Distance(SumOfSubtotals(sale[k]), sale[k].total) <= Cardinality(Items(sale[k])) + 1
    BY <2>2, <2>3, DistanceBound
  <2>5. QED
    BY <2>2, <2>3, <2>4
<1>2. QED
  BY <1>1, AlwaysSales, PTL

-----------------------------------------------------------------------------
(***************************************************************************)
(* Customers.                                                              *)
(***************************************************************************)

LEMMA Several ==
  ASSUME NEW S, IsFiniteSet(S)
  PROVE  /\ Cardinality(S) > 0 <=> S # {}
         /\ Cardinality(S) > 1 <=> \E x, y \in S : x # y
<1>1. Cardinality(S) \in Nat /\ (Cardinality(S) = 0 <=> S = {})
  BY FS_CardinalityType, FS_EmptySet
<1>2. ASSUME NEW x \in S
      PROVE  Cardinality(S) > 1 <=> S \ {x} # {}
  <2>1. IsFiniteSet(S \ {x}) /\ Cardinality(S \ {x}) = Cardinality(S) - 1
    BY FS_RemoveElement
  <2>2. Cardinality(S \ {x}) = 0 <=> S \ {x} = {}
    BY <2>1, FS_EmptySet
  <2>3. QED
    BY <1>1, <2>1, <2>2
<1>3. QED
  BY <1>1, <1>2

\* GET /analytics/customers loses no customer by its join, and calls those
\* repeat customers who have ordered from this farmer before or since.
THEOREM CustomersAreCounted == Spec => []CustomersCounted
<1>1. ASSUME SalesInv PROVE CustomersCounted
  <2> SUFFICES ASSUME NEW f \in Farmers, NEW g \in Guests
               PROVE  /\ g \in UniqueCustomers(f) <=> \E k \in SoldBy(f) : Recent(k) /\ sale[k].guest = g
                      /\ g \in RepeatCustomers(f) <=>
                           \E j, k \in SoldBy(f) :
                             j # k /\ Recent(j) /\ sale[j].guest = g /\ sale[k].guest = g
    BY DEF CustomersCounted
  <2> DEFINE From(h) == {k \in SoldBy(f) : sale[k].guest = h}
  <2>1. ASSUME NEW h
        PROVE  /\ OrderCount(f, h) > 0 <=> \E k \in SoldBy(f) : sale[k].guest = h
               /\ OrderCount(f, h) > 1 <=>
                    \E j, k \in SoldBy(f) : j # k /\ sale[j].guest = h /\ sale[k].guest = h
    <3>1. From(h) \in SUBSET Keys
      BY DEF SoldBy, Sold
    <3>2. IsFiniteSet(From(h))
      BY <3>1, FiniteAssumption, FS_Subset
    <3>3. OrderCount(f, h) = Cardinality(From(h))
      BY DEF OrderCount
    <3>4. /\ Cardinality(From(h)) > 0 <=> From(h) # {}
          /\ Cardinality(From(h)) > 1 <=> \E x, y \in From(h) : x # y
      BY <3>2, Several
    <3>5. QED
      BY <3>3, <3>4
  <2>2. g \in UniqueCustomers(f) <=> \E k \in SoldBy(f) : Recent(k) /\ sale[k].guest = g
    BY <2>1 DEF UniqueCustomers
  <2>3. g \in RepeatCustomers(f) <=> g \in UniqueCustomers(f) /\ OrderCount(f, g) > 1
    BY DEF RepeatCustomers
  <2>4. ASSUME NEW k \in SoldBy(f), Recent(k), sale[k].guest = g, OrderCount(f, g) > 1
        PROVE  \E i, j \in SoldBy(f) :
                 i # j /\ Recent(i) /\ sale[i].guest = g /\ sale[j].guest = g
    BY <2>1, <2>4
  <2>5. QED
    BY <2>1, <2>2, <2>3, <2>4
<1>2. QED
  BY <1>1, AlwaysSales, PTL

-----------------------------------------------------------------------------
(***************************************************************************)
(* Hours and days.                                                         *)
(***************************************************************************)

LEMMA ProductGrows ==
  ASSUME NEW h \in Nat, NEW a \in Int, NEW b \in Int, a <= b
  PROVE  h * a <= h * b
<1>1. h * (b - a) >= 0
  <2>1. b - a \in Nat
    OBVIOUS
  <2>2. QED
    BY <2>1
<1>2. h * (b - a) = h * b - h * a
  OBVIOUS
<1>3. h * a \in Int /\ h * b \in Int
  OBVIOUS
<1>4. QED
  BY <1>1, <1>2, <1>3

LEMMA DayBounds ==
  ASSUME NEW hour \in Nat
  PROVE  /\ DayOf(hour) \in Nat
         /\ Hours * DayOf(hour) <= hour
         /\ hour < Hours * DayOf(hour) + Hours
  BY SalesAssumption DEF DayOf

\* Days are in the order of their hours.
LEMMA DaysGrow ==
  ASSUME NEW early \in Nat, NEW late \in Nat, early <= late
  PROVE  DayOf(early) <= DayOf(late)
<1> SUFFICES ASSUME DayOf(late) + 1 <= DayOf(early) PROVE FALSE
  BY DayBounds
<1>1. /\ DayOf(early) \in Nat /\ DayOf(late) \in Nat /\ Hours \in Nat
      /\ Hours * DayOf(early) <= early
      /\ late < Hours * DayOf(late) + Hours
  BY DayBounds, SalesAssumption
<1>2. Hours * (DayOf(late) + 1) <= Hours * DayOf(early)
  BY <1>1, ProductGrows
<1>3. Hours * (DayOf(late) + 1) = Hours * DayOf(late) + Hours
  BY <1>1
<1>4. Hours * DayOf(late) \in Int /\ Hours * DayOf(early) \in Int
  BY <1>1
<1>5. QED
  BY <1>1, <1>2, <1>3, <1>4

\* The books of a period begin at midnight, the analytics at this hour.
LEMMA BookedMeans ==
  ASSUME NEW k, sale[k].placed \in Nat, now \in Nat, sale[k].placed <= now
  PROVE  Booked(k) <=> \/ Recent(k)
                       \/ ~Recent(k) /\ DayOf(sale[k].placed) = DayOf(now) - Period
<1> DEFINE d == DayOf(sale[k].placed)
           e == DayOf(now)
<1>1. d \in Nat /\ e \in Nat /\ Hours \in Nat /\ Period \in Nat
  BY DayBounds, SalesAssumption
<1>2. d <= e
  BY DaysGrow
<1>3. Booked(k) <=> e - Period <= d
  BY <1>2 DEF Booked, DateFrom
<1>4. /\ Hours * d <= sale[k].placed /\ sale[k].placed < Hours * d + Hours
      /\ Hours * e <= now /\ now < Hours * e + Hours
  BY DayBounds
<1> HIDE DEF d, e
<1>5. ASSUME Recent(k) PROVE e - Period <= d
  <2> SUFFICES ASSUME d + 1 <= e - Period PROVE FALSE
    BY <1>1
  <2>1. now - Period * Hours <= sale[k].placed
    BY <1>5 DEF Recent
  <2>2. Hours * (d + 1) <= Hours * (e - Period)
    BY <1>1, ProductGrows
  <2>3. Hours * (d + 1) = Hours * d + Hours /\ Hours * (e - Period) = Hours * e - Period * Hours
    BY <1>1
  <2>4. Hours * d \in Int /\ Hours * e \in Int /\ Period * Hours \in Int
    BY <1>1
  <2>5. QED
    BY <1>1, <1>4, <2>1, <2>2, <2>3, <2>4
<1>6. ASSUME e - Period + 1 <= d PROVE Recent(k)
  <2>1. Hours * (e - Period + 1) <= Hours * d
    BY <1>1, <1>6, ProductGrows
  <2>2. Hours * (e - Period + 1) = Hours * e - Period * Hours + Hours
    BY <1>1
  <2>3. Hours * d \in Int /\ Hours * e \in Int /\ Period * Hours \in Int
    BY <1>1
  <2>4. now - Period * Hours <= sale[k].placed
    BY <1>1, <1>4, <2>1, <2>2, <2>3
  <2>5. QED
    BY <2>4 DEF Recent
<1>7. QED
  BY <1>1, <1>3, <1>5, <1>6 DEF d, e

-----------------------------------------------------------------------------
(***************************************************************************)
(* Reports.                                                                *)
(***************************************************************************)

\* The column of totals.
Totals == [k \in Keys |-> IF sale[k] = None THEN 0 ELSE sale[k].total]

LEMMA TotalsNat ==
  ASSUME SalesInv
  PROVE  \A k \in Keys : Totals[k] \in Nat
  BY DEF SalesInv, Sale, Totals

LEMMA SumsOfTotals ==
  ASSUME SalesInv, NEW keys \in SUBSET Sold
  PROVE  SumOfTotals(keys) = Sum(Totals, keys) /\ IsFiniteSet(keys) /\ keys \in SUBSET Keys
<1> DEFINE f == [k \in keys |-> sale[k].total]
<1>1. keys \in SUBSET Keys /\ \A k \in keys : sale[k] # None
  BY DEF Sold
<1>2. IsFiniteSet(keys)
  BY <1>1, FiniteAssumption, FS_Subset
<1>3. \A k \in keys : f[k] \in Int /\ f[k] = Totals[k]
  BY <1>1, TotalsNat DEF Totals
<1>4. SumOfTotals(keys) = Sum(f, keys)
  BY DEF SumOfTotals, Sum
<1> HIDE DEF f
<1>5. QED
  BY <1>1, <1>2, <1>3, <1>4, SumSame

LEMMA SoldFacts ==
  ASSUME SalesInv, NEW k \in Sold
  PROVE  /\ k \in Keys /\ sale[k] # None /\ sale[k] \in Sale
         /\ sale[k].placed \in Nat /\ now \in Nat /\ sale[k].placed <= now
         /\ Sells(sale[k]) /\ Priced(sale[k])
         /\ sale[k].first \in Products /\ product[sale[k].first] \in Product
<1>1. k \in Keys /\ sale[k] # None
  BY DEF Sold
<1>2. sale[k] \in Sale /\ Sells(sale[k]) /\ Priced(sale[k]) /\ sale[k].placed <= now
  BY <1>1 DEF SalesInv
<1>3. sale[k].placed \in Nat /\ now \in Nat
  BY <1>2, SalesAssumption DEF SalesInv, Sale
<1>4. sale[k].first \in Products /\ product[sale[k].first] # None
  BY <1>2 DEF Sells, Items
<1>5. product[sale[k].first] \in Product
  BY <1>4 DEF SalesInv, IInv, CatalogueTypeOK
<1>6. QED
  BY <1>1, <1>2, <1>3, <1>4, <1>5

\* GET /bookkeeping/summary and GET /analytics/summary differ by the first
\* day's hours that are further back than the period.
THEOREM IncomeAlwaysCoversRevenue == Spec => []IncomeCoversRevenue
<1>1. ASSUME SalesInv PROVE IncomeCoversRevenue
  <2> DEFINE Before(f) ==
        {k \in SoldBy(f) : ~Recent(k) /\ DayOf(sale[k].placed) = DayOf(now) - Period}
  <2> SUFFICES ASSUME NEW f \in Farmers
               PROVE  Income(f) = Revenue(f) + SumOfTotals(Before(f))
    BY DEF IncomeCoversRevenue
  <2> DEFINE whole == {k \in SoldBy(f) : Booked(k)}
             period == {k \in SoldBy(f) : Recent(k)}
             before == Before(f)
  <2>1. SoldBy(f) \subseteq Sold
    BY DEF SoldBy
  <2>2. \A k \in SoldBy(f) :
          Booked(k) <=> \/ Recent(k)
                        \/ ~Recent(k) /\ DayOf(sale[k].placed) = DayOf(now) - Period
    BY <1>1, <2>1, SoldFacts, BookedMeans
  <2>3. whole = period \cup before /\ period \cap before = {}
    BY <2>2
  <2>4. whole \in SUBSET Sold /\ period \in SUBSET Sold /\ before \in SUBSET Sold
    BY <2>1
  <2>5. Income(f) = SumOfTotals(whole) /\ Revenue(f) = SumOfTotals(period)
    BY DEF Income, Revenue
  <2> HIDE DEF whole, period, before
  <2>6. /\ SumOfTotals(whole) = Sum(Totals, whole) /\ IsFiniteSet(whole) /\ whole \in SUBSET Keys
        /\ SumOfTotals(period) = Sum(Totals, period)
        /\ SumOfTotals(before) = Sum(Totals, before)
    BY <1>1, <2>4, SumsOfTotals
  <2>7. \A k \in whole : Totals[k] \in Int
    BY <1>1, <2>6, TotalsNat
  <2>8. Sum(Totals, whole) = Sum(Totals, period) + Sum(Totals, before)
    BY <2>3, <2>6, <2>7, SumUnion
  <2>9. QED
    BY <2>5, <2>6, <2>8 DEF before
<1>2. QED
  BY <1>1, AlwaysSales, PTL

\* What all reports of a period are about.
Counted == {k \in Sold : Recent(k)}

LEMMA CountedFacts ==
  ASSUME SalesInv
  PROVE  /\ Counted \in SUBSET Sold /\ Counted \in SUBSET Keys /\ IsFiniteSet(Counted)
         /\ \A k \in Counted : Totals[k] \in Int
<1>1. Counted \in SUBSET Sold
  BY DEF Counted
<1>2. IsFiniteSet(Counted) /\ Counted \in SUBSET Keys
  BY <1>1, SumsOfTotals
<1>3. QED
  BY <1>1, <1>2, TotalsNat

\* Each order is one farmer's revenue.
LEMMA RevenueByFarmer ==
  ASSUME SalesInv
  PROVE  Sum([f \in Farmers |-> Revenue(f)], Farmers) = Sum(Totals, Counted)
<1> DEFINE class == [k \in Counted |-> product[sale[k].first].farmer]
           g == [f \in Farmers |-> Revenue(f)]
<1>1. class \in [Counted -> Farmers]
  <2>1. ASSUME NEW k \in Counted PROVE product[sale[k].first].farmer \in Farmers
    BY CountedFacts, SoldFacts DEF Product
  <2>2. QED
    BY <2>1
<1>2. ASSUME NEW f \in Farmers
      PROVE  g[f] = Sum(Totals, {k \in Counted : class[k] = f})
  <2> DEFINE keys == {k \in SoldBy(f) : Recent(k)}
  <2>1. keys = {k \in Counted : class[k] = f}
    BY DEF SoldBy, Counted
  <2>2. keys \in SUBSET Sold
    BY DEF SoldBy
  <2>3. g[f] = SumOfTotals(keys)
    BY DEF Revenue
  <2> HIDE DEF keys, class, g
  <2>4. SumOfTotals(keys) = Sum(Totals, keys)
    BY <2>2, SumsOfTotals
  <2>5. QED
    BY <2>1, <2>3, <2>4
<1> HIDE DEF class, g
<1>3. ClassSums(g, Totals, class, Counted, Farmers)
  BY <1>2 DEF ClassSums
<1>4. Sum(g, Farmers) = Sum(Totals, Counted)
  BY <1>1, <1>3, CountedFacts, FiniteAssumption, SumClasses
<1>5. QED
  BY <1>4 DEF g

\* A farmer's chart shows the revenue.
LEMMA RevenueByDay ==
  ASSUME SalesInv, NEW f \in Farmers
  PROVE  Revenue(f) = Sum([d \in 0..DayOf(now) |-> ChartPoint(f, d)], 0..DayOf(now))
<1> DEFINE days == 0..DayOf(now)
           keys == {k \in SoldBy(f) : Recent(k)}
           class == [k \in keys |-> DayOf(sale[k].placed)]
           g == [d \in days |-> ChartPoint(f, d)]
<1>1. keys \in SUBSET Sold
  BY DEF SoldBy
<1>2. now \in Nat
  BY SalesAssumption DEF SalesInv
<1>3. class \in [keys -> days]
  <2>1. ASSUME NEW k \in keys PROVE DayOf(sale[k].placed) \in days
    BY <1>1, <1>2, SoldFacts, DayBounds, DaysGrow
  <2>2. QED
    BY <2>1
<1>4. Revenue(f) = Sum(Totals, keys) /\ IsFiniteSet(keys) /\ keys \in SUBSET Keys
  BY <1>1, SumsOfTotals DEF Revenue
<1>5. IsFiniteSet(days)
  BY <1>2, DayBounds, FS_Interval
<1>6. ASSUME NEW d \in days
      PROVE  g[d] = Sum(Totals, {k \in keys : class[k] = d})
  <2> DEFINE point == {k \in SoldBy(f) : Recent(k) /\ DayOf(sale[k].placed) = d}
  <2>1. point = {k \in keys : class[k] = d}
    OBVIOUS
  <2>2. point \in SUBSET Sold
    BY DEF SoldBy
  <2>3. g[d] = SumOfTotals(point)
    BY DEF ChartPoint
  <2> HIDE DEF keys, class, g, point
  <2>4. SumOfTotals(point) = Sum(Totals, point)
    BY <2>2, SumsOfTotals
  <2>5. QED
    BY <2>1, <2>3, <2>4
<1>7. \A k \in keys : Totals[k] \in Int
  BY <1>4, TotalsNat
<1> HIDE DEF days, keys, class, g
<1>8. ClassSums(g, Totals, class, keys, days)
  BY <1>6 DEF ClassSums
<1>9. Sum(g, days) = Sum(Totals, keys)
  BY <1>3, <1>4, <1>5, <1>7, <1>8, SumClasses
<1>10. QED
  BY <1>4, <1>9 DEF g, days

\* The products' revenue is the same money, rounded by item.
LEMMA RevenueByProduct ==
  ASSUME SalesInv
  PROVE  LET byProduct == Sum([p \in Products |-> ProductRevenue(p)], Products)
             halves == Sum([k \in Counted |-> Cardinality(Items(sale[k])) + 1], Counted)
         IN  /\ 2 * Sum(Totals, Counted) <= 2 * byProduct + halves
             /\ 2 * byProduct <= 2 * Sum(Totals, Counted) + halves
             /\ byProduct \in Int /\ halves \in Int
<1> DEFINE F == [k \in Counted |-> [p \in Products |->
                   IF p \in Items(sale[k]) THEN sale[k].subtotal[p] ELSE 0]]
           G == [p \in Products |-> [k \in Counted |->
                   IF p \in Items(sale[k]) THEN sale[k].subtotal[p] ELSE 0]]
           r == [k \in Counted |-> SumOfSubtotals(sale[k])]
           c == [p \in Products |-> ProductRevenue(p)]
           w == [k \in Counted |-> Cardinality(Items(sale[k])) + 1]
<1>1. \A k \in Counted : /\ sale[k] \in Sale /\ Priced(sale[k])
                         /\ sale[k].total \in Nat /\ Totals[k] = sale[k].total
                         /\ \A p \in Products : sale[k].subtotal[p] \in Nat
  BY CountedFacts, SoldFacts DEF Sale, Totals
<1>2. Transpose(F, G, Counted, Products)
  BY <1>1 DEF Transpose
<1>3. RowSums(r, F, Counted, Products)
  <2> SUFFICES ASSUME NEW k \in Counted PROVE r[k] = Sum(F[k], Products)
    BY DEF RowSums
  <2> DEFINE s == sale[k].subtotal
             m == F[k]
  <2>1. Items(sale[k]) \in SUBSET Products
    BY DEF Items
  <2>2. /\ \A p \in Items(sale[k]) : s[p] \in Int /\ m[p] = s[p]
        /\ \A p \in Products \ Items(sale[k]) : m[p] = 0
    BY <1>1, <2>1
  <2>3. r[k] = Sum(s, Items(sale[k]))
    BY DEF SumOfSubtotals, Sum
  <2> HIDE DEF s, m
  <2>4. Sum(m, Products) = Sum(s, Items(sale[k]))
    BY <2>1, <2>2, FiniteAssumption, SumMasked
  <2>5. QED
    BY <2>3, <2>4 DEF m
<1>4. RowSums(c, G, Products, Counted)
  <2> SUFFICES ASSUME NEW p \in Products PROVE c[p] = Sum(G[p], Counted)
    BY DEF RowSums
  <2> DEFINE keys == {k \in Sold : Recent(k) /\ p \in Items(sale[k])}
             s == [k \in keys |-> sale[k].subtotal[p]]
             m == G[p]
  <2>1. keys \in SUBSET Counted
    BY DEF Counted
  <2>2. /\ \A k \in keys : s[k] \in Int /\ m[k] = s[k]
        /\ \A k \in Counted \ keys : m[k] = 0
    BY <1>1, <2>1 DEF Counted
  <2>3. c[p] = Sum(s, keys)
    BY DEF ProductRevenue, Sum
  <2> HIDE DEF keys, s, m
  <2>4. Sum(m, Counted) = Sum(s, keys)
    BY <2>1, <2>2, CountedFacts, SumMasked
  <2>5. QED
    BY <2>3, <2>4 DEF m
<1>5. \A k \in Counted : /\ r[k] \in Int /\ w[k] \in Int
                         /\ 2 * Totals[k] <= 2 * r[k] + w[k]
                         /\ 2 * r[k] <= 2 * Totals[k] + w[k]
  <2> SUFFICES ASSUME NEW k \in Counted
               PROVE  /\ SumOfSubtotals(sale[k]) \in Int
                      /\ Cardinality(Items(sale[k])) + 1 \in Int
                      /\ 2 * Totals[k] <= 2 * SumOfSubtotals(sale[k]) + (Cardinality(Items(sale[k])) + 1)
                      /\ 2 * SumOfSubtotals(sale[k]) <= 2 * Totals[k] + (Cardinality(Items(sale[k])) + 1)
    OBVIOUS
  <2>1. QED
    BY <1>1, PricedAgrees
<1> HIDE DEF F, G, r, c, w
<1>6. Sum(r, Counted) = Sum(c, Products)
  BY <1>2, <1>3, <1>4, CountedFacts, FiniteAssumption, SumExchange
<1>7. /\ 2 * Sum(Totals, Counted) <= 2 * Sum(r, Counted) + Sum(w, Counted)
      /\ 2 * Sum(r, Counted) <= 2 * Sum(Totals, Counted) + Sum(w, Counted)
  BY <1>5, CountedFacts, SumsNear
<1>8. Sum(r, Counted) \in Int /\ Sum(w, Counted) \in Int
  BY <1>5, CountedFacts, SumInt
<1>9. QED
  BY <1>6, <1>7, <1>8 DEF c, w

\* A product's revenue is no debt; one that no farmer has sold has none.
LEMMA ProductRevenueNat ==
  ASSUME SalesInv, NEW p \in Products
  PROVE  /\ ProductRevenue(p) \in Nat
         /\ (\A f \in Farmers : p \notin SoldProducts(f)) => ProductRevenue(p) = 0
<1> DEFINE keys == {k \in Sold : Recent(k) /\ p \in Items(sale[k])}
           s == [k \in keys |-> sale[k].subtotal[p]]
<1>1. keys \in SUBSET Counted
  BY DEF Counted
<1>2. IsFiniteSet(keys)
  BY <1>1, CountedFacts, FS_Subset
<1>3. \A k \in keys : s[k] \in Nat
  BY <1>1, CountedFacts, SoldFacts DEF Sale
<1>4. ProductRevenue(p) = Sum(s, keys)
  BY DEF ProductRevenue, Sum
<1>5. ASSUME \A f \in Farmers : p \notin SoldProducts(f) PROVE keys = {}
  <2> SUFFICES ASSUME NEW k \in keys PROVE FALSE
    OBVIOUS
  <2>1. k \in Keys /\ sale[k] # None /\ p \in Items(sale[k])
    BY <1>1, CountedFacts DEF Sold
  <2>2. Sells(sale[k])
    BY <2>1 DEF SalesInv
  <2>3. product[p] # None
    BY <2>1, <2>2 DEF Sells
  <2>4. product[p].farmer \in Farmers
    BY <2>3 DEF SalesInv, IInv, CatalogueTypeOK, Product
  <2>5. p \in SoldProducts(product[p].farmer)
    BY DEF SoldProducts
  <2>6. QED
    BY <1>5, <2>4, <2>5
<1> HIDE DEF keys, s
<1>6. ProductRevenue(p) \in Nat
  BY <1>2, <1>3, <1>4, SumNat
<1>7. ASSUME \A f \in Farmers : p \notin SoldProducts(f) PROVE ProductRevenue(p) = 0
  BY <1>4, <1>5, <1>7, SumEmpty
<1>8. QED
  BY <1>6, <1>7

\* A list of all that a farmer has sold, if there is room for it.
LEMMA ListsAll ==
  ASSUME NEW f, NEW listed \in TopProducts(f), Cardinality(SoldProducts(f)) <= Top
  PROVE  listed = SoldProducts(f)
<1>1. SoldProducts(f) \subseteq Products
  BY DEF SoldProducts
<1>2. IsFiniteSet(SoldProducts(f))
  BY <1>1, FiniteAssumption, FS_Subset
<1>3. listed \subseteq SoldProducts(f) /\ (listed # SoldProducts(f) => Cardinality(listed) = Top)
  BY DEF TopProducts
<1>4. /\ IsFiniteSet(listed)
      /\ Cardinality(listed) <= Cardinality(SoldProducts(f))
      /\ Cardinality(SoldProducts(f)) = Cardinality(listed) => listed = SoldProducts(f)
  BY <1>2, <1>3, FS_Subset
<1>5. Cardinality(SoldProducts(f)) \in Nat /\ Cardinality(listed) \in Nat /\ Top \in Nat
  BY <1>2, <1>4, FS_CardinalityType, SalesAssumption
<1>6. QED
  BY <1>3, <1>4, <1>5

\* The products that are listed come to at most what all products come to, and
\* to that if there is room for all.
LEMMA ListedRevenue ==
  ASSUME SalesInv, NEW listed \in [Farmers -> SUBSET Products],
         \A f \in Farmers : listed[f] \in TopProducts(f)
  PROVE  LET revenues == [p \in Products |-> ProductRevenue(p)]
             shown == Sum(revenues, UNION {listed[f] : f \in Farmers})
         IN  /\ shown \in Int
             /\ shown <= Sum(revenues, Products)
             /\ (\A f \in Farmers : Cardinality(SoldProducts(f)) <= Top) =>
                  shown = Sum(revenues, Products)
<1> DEFINE revenues == [p \in Products |-> ProductRevenue(p)]
           L == UNION {listed[f] : f \in Farmers}
           masked == [p \in Products |-> IF p \in L THEN revenues[p] ELSE 0]
<1>1. L \in SUBSET Products
  OBVIOUS
<1>2. \A p \in Products : revenues[p] \in Nat
  BY ProductRevenueNat
<1>3. /\ \A p \in L : revenues[p] \in Int /\ masked[p] = revenues[p]
      /\ \A p \in Products \ L : masked[p] = 0
  BY <1>1, <1>2
<1>4. \A p \in Products : /\ masked[p] \in Int /\ revenues[p] \in Int
                           /\ masked[p] <= revenues[p]
  BY <1>2
<1>5. ASSUME \A f \in Farmers : Cardinality(SoldProducts(f)) <= Top
      PROVE  \A p \in Products : masked[p] = revenues[p]
  <2> SUFFICES ASSUME NEW p \in Products, p \notin L PROVE revenues[p] = 0
    OBVIOUS
  <2>1. \A f \in Farmers : listed[f] = SoldProducts(f)
    BY <1>5, ListsAll
  <2>2. \A f \in Farmers : p \notin SoldProducts(f)
    BY <2>1
  <2>3. QED
    BY <2>2, ProductRevenueNat
<1> HIDE DEF revenues, masked, L
<1>6. Sum(masked, Products) = Sum(revenues, L)
  BY <1>1, <1>3, FiniteAssumption, SumMasked
<1>7. Sum(masked, Products) \in Int /\ Sum(masked, Products) <= Sum(revenues, Products)
  BY <1>4, FiniteAssumption, SumInt, SumMonotone
<1>8. ASSUME \A f \in Farmers : Cardinality(SoldProducts(f)) <= Top
      PROVE  Sum(masked, Products) = Sum(revenues, Products)
  BY <1>4, <1>5, <1>8, FiniteAssumption, SumSame
<1>9. QED
  BY <1>6, <1>7, <1>8 DEF revenues, L

\* The farmers' revenue is each order's total once, the chart shows it too, and
\* the five products that are listed are never more than that (routes/v1/
\* analytics.rs, every report of a farmer).
THEOREM ReportsAlwaysAgree == Spec => []ReportsAgree
<1>1. ASSUME SalesInv PROVE ReportsAgree
  <2> DEFINE revenue == Sum([f \in Farmers |-> Revenue(f)], Farmers)
             byProduct == Sum([p \in Products |-> ProductRevenue(p)], Products)
             halves == Sum([k \in Counted |-> Cardinality(Items(sale[k])) + 1], Counted)
             Shown(listed) == Sum([p \in Products |-> ProductRevenue(p)],
                                  UNION {listed[f] : f \in Farmers})
  <2>1. revenue = Sum(Totals, Counted) /\ SumOfTotals(Counted) = Sum(Totals, Counted)
    BY <1>1, RevenueByFarmer, CountedFacts, SumsOfTotals
  <2>2. ASSUME NEW f \in Farmers
        PROVE  Revenue(f) = Sum([d \in 0..DayOf(now) |-> ChartPoint(f, d)], 0..DayOf(now))
    BY <1>1, RevenueByDay
  <2>3. /\ 2 * Sum(Totals, Counted) <= 2 * byProduct + halves
        /\ 2 * byProduct <= 2 * Sum(Totals, Counted) + halves
        /\ byProduct \in Int /\ halves \in Int
    BY <1>1, RevenueByProduct
  <2>4. Sum(Totals, Counted) \in Int
    BY <1>1, CountedFacts, SumInt
  <2>5. ASSUME NEW listed \in [Farmers -> SUBSET Products],
               \A f \in Farmers : listed[f] \in TopProducts(f)
        PROVE  /\ 2 * Shown(listed) <= 2 * revenue + halves
               /\ (\A f \in Farmers : Cardinality(SoldProducts(f)) <= Top) =>
                    2 * Distance(revenue, Shown(listed)) <= halves
    <3>1. /\ Shown(listed) \in Int
          /\ Shown(listed) <= byProduct
          /\ (\A f \in Farmers : Cardinality(SoldProducts(f)) <= Top) => Shown(listed) = byProduct
      BY <1>1, <2>5, ListedRevenue
    <3> HIDE DEF revenue, byProduct, halves, Shown
    <3>2. 2 * Shown(listed) <= 2 * revenue + halves
      BY <2>1, <2>3, <2>4, <3>1
    <3>3. 2 * Distance(revenue, byProduct) <= halves
      BY <2>1, <2>3, <2>4, DistanceBound
    <3>4. QED
      BY <3>1, <3>2, <3>3
  <2> HIDE DEF byProduct
  <2>6. QED
    BY <2>1, <2>2, <2>5 DEF ReportsAgree, Counted, Sum
<1>2. QED
  BY <1>1, AlwaysSales, PTL
=============================================================================
