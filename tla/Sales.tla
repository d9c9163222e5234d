-------------------------------- MODULE Sales --------------------------------
(***************************************************************************)
(* What orders are worth: the prices that checkout reads, the amounts it   *)
(* stores in NUMERIC(10, 2) columns, and the reports that farmers get from *)
(* them.  Prices and amounts are in pence, quantities in thousandths, so   *)
(* that a quantity times a price is in thousandths of a penny.             *)
(*                                                                         *)
(* Orders, with stock and carts left out: here a request's quantities come *)
(* from anywhere, and of an order's status only "cancelled" matters.       *)
(***************************************************************************)
EXTENDS Catalogue, Functions

CONSTANTS
  Keys,
  Guests,      \* customers, by their email addresses
  Buyers,      \* POST /orders requests that may be in flight together
  Carts,       \* bound: what carts hold, as functions from products to quantities
  Hours,       \* hours of a day
  Period,      \* days that a report covers
  Top,         \* products that a farmer's report lists, 5 in the code
  End          \* bound: the last hour

VARIABLES
  sale,     \* order key -> its row and its items, or None
  buying,   \* buyer -> what it has read and not yet stored, or None
  now       \* the hour

salesVars == <<sale, buying, now>>
vars == <<catalogueVars, salesVars>>

Purchase == [quantity : [Products -> Nat], unit : [Products -> Nat], first : Products]

\* The columns of orders, and of order_items for the products with a quantity.
Sale == [quantity : [Products -> Nat], unit : [Products -> Nat], first : Products,
         guest : Guests, subtotal : [Products -> Nat], total : Nat, placed : 0..End, cancelled : BOOLEAN]

Buying == [key : Keys, guest : Guests, purchase : Purchase]

ASSUME SalesAssumption ==
  /\ Carts \subseteq [Products -> Nat]
  /\ Hours \in Nat \ {0}
  /\ Period \in Nat
  /\ Top \in Nat
  /\ End \in Nat
  /\ None \notin Sale \cup Buying

\* What there is to sum over.
ASSUME FiniteAssumption == IsFiniteSet(Products) /\ IsFiniteSet(Keys) /\ IsFiniteSet(Farmers)

Init ==
  /\ InitCatalogue
  /\ sale = [k \in Keys |-> None]
  /\ buying = [b \in Buyers |-> None]
  /\ now = 0

-----------------------------------------------------------------------------
(***************************************************************************)
(* POST /orders: the amounts.                                              *)
(***************************************************************************)

Items(purchase) == {p \in Products : purchase.quantity[p] > 0}

\* What PostgreSQL makes of an amount with more than two decimals.
Rounded(amount) == (amount + 500) \div 1000

Subtotal(quantity, unit) == Rounded(quantity * unit)

\* The sum is over exact products; the column rounds it.
TotalOf(purchase) ==
  Rounded(SumFunctionOnSet([p \in Products |-> purchase.quantity[p] * purchase.unit[p]],
                           Items(purchase)))

\* The SELECT that joins the cart to products, deleted ones too: the prices of
\* all items come from one statement.
ReadCart(b, k, g, quantity) ==
  /\ buying[b] = None
  /\ sale[k] = None
  /\ \E p \in Products : quantity[p] > 0
  /\ \A p \in Products : quantity[p] > 0 => product[p] # None
  /\ \E first \in {p \in Products : quantity[p] > 0} :
       buying' = [buying EXCEPT ![b] =
         [key |-> k, guest |-> g,
          purchase |->
            [quantity |-> quantity,
             unit |-> [p \in Products |-> IF quantity[p] > 0 THEN product[p].price ELSE 0],
             first |-> first]]]
  /\ UNCHANGED <<catalogueVars, sale, now>>

\* Mutant of UnitPrices: an item is stored with the price of the moment.
PricesNow(purchase) ==
  [p \in Products |-> IF p \in Items(purchase) THEN product[p].price ELSE 0]

\* The prices that order_items keeps.
UnitPrices(purchase) == purchase.unit

\* The transaction; nothing if the key has been taken since.
StoreSale(b) ==
  /\ buying[b] # None
  /\ LET k == buying[b].key
         bought == buying[b].purchase
         unit == UnitPrices(bought)
     IN  sale' = IF sale[k] # None THEN sale ELSE
           [sale EXCEPT ![k] =
              [quantity |-> bought.quantity, unit |-> unit, first |-> bought.first,
               guest |-> buying[b].guest,
               subtotal |-> [p \in Products |-> Subtotal(bought.quantity[p], unit[p])],
               total |-> TotalOf(bought), placed |-> now, cancelled |-> FALSE]]
  /\ buying' = [buying EXCEPT ![b] = None]
  /\ UNCHANGED <<catalogueVars, now>>

DropBuying(b) ==
  /\ buying[b] # None
  /\ buying' = [buying EXCEPT ![b] = None]
  /\ UNCHANGED <<catalogueVars, sale, now>>

\* A farmer may cancel an order and take that back, the job may cancel it.
SetCancelled(k, cancelled) ==
  /\ sale[k] # None
  /\ sale' = [sale EXCEPT ![k].cancelled = cancelled]
  /\ UNCHANGED <<catalogueVars, buying, now>>

Tick ==
  /\ now < End
  /\ now' = now + 1
  /\ UNCHANGED <<catalogueVars, sale, buying>>

SalesStep ==
  \/ \E b \in Buyers :
       \/ \E k \in Keys, g \in Guests, quantity \in Carts : ReadCart(b, k, g, quantity)
       \/ StoreSale(b)
       \/ DropBuying(b)
  \/ \E k \in Keys, cancelled \in BOOLEAN : SetCancelled(k, cancelled)
  \/ Tick

Next ==
  \/ (CategoryStep \/ ProductStep) /\ UNCHANGED salesVars
  \/ SalesStep

Spec == Init /\ [][Next]_vars

-----------------------------------------------------------------------------
(***************************************************************************)
(* The reports, each the answer to one SELECT.                             *)
(***************************************************************************)

DayOf(hour) == hour \div Hours

\* Every report's WHERE: not cancelled.
Sold == {k \in Keys : sale[k] # None /\ ~sale[k].cancelled}

\* Mutant of SoldBy: the join goes through order_items.
SoldByItems(f) == {k \in Sold : \E p \in Items(sale[k]) : product[p].farmer = f}

\* The join of orders to the farmer, over orders.stock_id.
SoldBy(f) == {k \in Sold : product[sale[k].first].farmer = f}

\* Analytics: placed_at >= now() - N days, to the hour.
Recent(k) == sale[k].placed >= now - Period * Hours

SumOfTotals(keys) == SumFunctionOnSet([k \in keys |-> sale[k].total], keys)

\* GET /analytics/summary: total_revenue_gbp.
Revenue(f) == SumOfTotals({k \in SoldBy(f) : Recent(k)})

\* GET /analytics/revenue: a point of the chart ...
ChartPoint(f, day) ==
  SumOfTotals({k \in SoldBy(f) : Recent(k) /\ DayOf(sale[k].placed) = day})

\* ... and a line of the products, which the item's own farmer gets ...
ProductRevenue(p) ==
  LET keys == {k \in Sold : Recent(k) /\ p \in Items(sale[k])}
  IN  SumFunctionOnSet([k \in keys |-> sale[k].subtotal[p]], keys)

SoldProducts(f) ==
  {p \in Products : /\ \E k \in Sold : Recent(k) /\ p \in Items(sale[k])
                    /\ product[p].farmer = f}

\* ... if it is among the first of ORDER BY revenue DESC LIMIT 5; which of two
\* products of the same revenue comes first is left open.
TopProducts(f) ==
  {listed \in SUBSET SoldProducts(f) :
     /\ Cardinality(listed) <= Top
     /\ listed # SoldProducts(f) => Cardinality(listed) = Top
     /\ \A p \in listed, q \in SoldProducts(f) \ listed : ProductRevenue(p) >= ProductRevenue(q)}

\* Mutant of DateFrom: as many calendar days as the period has.
DateAfter == DayOf(now) - Period + 1

\* Bookkeeping: whole days, by default from today less the period.
DateFrom == DayOf(now) - Period

Booked(k) == DateFrom <= DayOf(sale[k].placed) /\ DayOf(sale[k].placed) <= DayOf(now)

\* GET /bookkeeping/summary: total_income_gbp.
Income(f) == SumOfTotals({k \in SoldBy(f) : Booked(k)})

\* Mutant of OrderCount: the orders at all farmers are counted.
OrderCountAnywhere(f, g) == Cardinality({k \in Sold : sale[k].guest = g})

\* GET /analytics/customers: the subquery that counts a guest's orders of any
\* age, which is joined to the orders of the period.
OrderCount(f, g) == Cardinality({k \in SoldBy(f) : sale[k].guest = g})

UniqueCustomers(f) ==
  {sale[k].guest : k \in {j \in SoldBy(f) : Recent(j) /\ OrderCount(f, sale[j].guest) > 0}}

RepeatCustomers(f) == {g \in UniqueCustomers(f) : OrderCount(f, g) > 1}

-----------------------------------------------------------------------------
(***************************************************************************)
(* Properties                                                              *)
(***************************************************************************)

\* Catalogue, orders and requests are well formed; an order is of products
\* that exist (TypeOK).
SalesTypeOK ==
  /\ CatalogueTypeOK
  /\ sale \in [Keys -> Sale \cup {None}]
  /\ buying \in [Buyers -> Buying \cup {None}]
  /\ now \in 0..End
  /\ \A k \in Keys : sale[k] # None =>
       /\ sale[k].first \in Items(sale[k])
       /\ \A p \in Items(sale[k]) : product[p] # None

Distance(a, b) == IF a < b THEN b - a ELSE a - b

SumOfSubtotals(row) == SumFunctionOnSet(row.subtotal, Items(row))

\* What a customer is charged is what the stored items come to, rounded once,
\* whatever becomes of the prices between the SELECT, the transaction and now;
\* and the stored subtotals add up to it but for half a penny each.
AmountsAgree ==
  \A k \in Keys : sale[k] # None =>
    /\ sale[k].total = TotalOf(sale[k])
    /\ 2 * Distance(SumOfSubtotals(sale[k]), sale[k].total) <= Cardinality(Items(sale[k])) + 1
    /\ Cardinality(Items(sale[k])) = 1 => SumOfSubtotals(sale[k]) = sale[k].total

\* The farmers' reports add up: each order that is not cancelled is somebody's
\* revenue, and only once, also when its items are of several farmers; the
\* chart shows all of it; the products that are listed never come to more than
\* that money, but for the rounding by item; and they come to all of it as long
\* as no farmer has sold more products than a list has room for.
ReportsAgree ==
  LET counted == {k \in Sold : Recent(k)}
      revenue == SumFunctionOnSet([f \in Farmers |-> Revenue(f)], Farmers)
      halves == SumFunctionOnSet([k \in counted |-> Cardinality(Items(sale[k])) + 1], counted)
  IN  /\ revenue = SumOfTotals(counted)
      /\ \A f \in Farmers :
           LET days == 0 .. DayOf(now)
           IN  Revenue(f) = SumFunctionOnSet([d \in days |-> ChartPoint(f, d)], days)
      /\ \A listed \in [Farmers -> SUBSET Products] :
           (\A f \in Farmers : listed[f] \in TopProducts(f)) =>
             LET shown == SumFunctionOnSet([p \in Products |-> ProductRevenue(p)],
                                           UNION {listed[f] : f \in Farmers})
             IN  /\ 2 * shown <= 2 * revenue + halves
                 /\ (\A f \in Farmers : Cardinality(SoldProducts(f)) <= Top) =>
                      2 * Distance(revenue, shown) <= halves

\* The bookkeeping of a period and the analytics of as many days differ, but
\* only by the hours of the first day that are further back than the period.
IncomeCoversRevenue ==
  \A f \in Farmers :
    Income(f) = Revenue(f)
      + SumOfTotals({k \in SoldBy(f) : ~Recent(k) /\ DayOf(sale[k].placed) = DayOf(now) - Period})

\* The join loses no customer of the period, and those it calls repeat
\* customers have come back to this farmer, however long ago they came first.
CustomersCounted ==
  \A f \in Farmers, g \in Guests :
    /\ g \in UniqueCustomers(f) <=> \E k \in SoldBy(f) : Recent(k) /\ sale[k].guest = g
    /\ g \in RepeatCustomers(f) <=>
         \E j, k \in SoldBy(f) :
           j # k /\ Recent(k) /\ sale[j].guest = g /\ sale[k].guest = g
=============================================================================
