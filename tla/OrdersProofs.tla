---------------------------- MODULE OrdersProofs -----------------------------
(***************************************************************************)
(* Safety of carts and checkout for every set of products, sessions, order *)
(* keys and requests.  Typing comes first, then one invariant for the      *)
(* carts and one for what a checkout does after its commit.                *)
(***************************************************************************)
EXTENDS Orders, TLAPS

-----------------------------------------------------------------------------
(***************************************************************************)
(* The carts.                                                              *)
(***************************************************************************)

CartInv == CartTypeOK /\ CartsSeparate

LEMMA NoLinesTyped == NoLines \in Lines
  BY DEF NoLines, Lines

\* What a cart request in flight carries, by its step.
LEMMA ShoppingShape ==
  ASSUME CartTypeOK, NEW h \in Shoppers, shopping[h] # None
  PROVE  /\ shopping[h] \in Shopping
         /\ shopping[h].product \in Products
         /\ shopping[h].quantity \in Quantities
         /\ shopping[h].pc \in {"check", "insert", "set"}
         /\ shopping[h].pc = "set" => shopping[h].session \in Sessions
         /\ shopping[h].pc # "set" =>
              /\ shopping[h].cart \in CartIds
              /\ shopping[h] = [pc |-> shopping[h].pc, cart |-> shopping[h].cart,
                                product |-> shopping[h].product,
                                quantity |-> shopping[h].quantity]
  BY DEF CartTypeOK, Shopping

\* A line written into a cart that some session has.
LEMMA WriteLine ==
  ASSUME CartInv, NEW c \in CartIds, NEW p \in Products, NEW n \in Nat,
         c \in Live \/ n = lines[c][p],
         lines' = [lines EXCEPT ![c][p] = n], UNCHANGED <<cartOf, used>>
  PROVE  lines' \in [CartIds -> Lines] /\ CartsSeparate'
<1> DEFINE row == [lines[c] EXCEPT ![p] = n]
<1>1. row \in Lines /\ (n = lines[c][p] => row = lines[c])
  BY DEF CartInv, CartTypeOK, Lines
<1>2. lines' = [lines EXCEPT ![c] = row]
  OBVIOUS
<1>3. lines' \in [CartIds -> Lines]
  BY <1>1, <1>2 DEF CartInv, CartTypeOK
<1>4. \A d \in CartIds : lines'[d] # NoLines => d \in Live
  BY <1>1, <1>2 DEF CartInv, CartTypeOK, CartsSeparate
<1>5. QED
  BY <1>3, <1>4 DEF CartInv, CartsSeparate, Live

\* A cart of its own for a session that had none, or the cart it has.
LEMMA UpsertCartInv ==
  ASSUME CartInv, NEW s \in Sessions, NEW id \in CartIds, UpsertCart(s, id),
         UNCHANGED lines
  PROVE  /\ cartOf' \in [Sessions -> CartIds \cup {None}]
         /\ used' \subseteq CartIds
         /\ CartsSeparate'
<1>1. CASE UNCHANGED <<cartOf, used>>
  BY <1>1 DEF CartInv, CartTypeOK, CartsSeparate, Live
<1>2. CASE /\ cartOf[s] = None
           /\ id \in CartIds \ used
           /\ cartOf' = [cartOf EXCEPT ![s] = id]
           /\ used' = used \cup {id}
  <2>1. cartOf' \in [Sessions -> CartIds \cup {None}] /\ used' \subseteq CartIds
    BY <1>2 DEF CartInv, CartTypeOK
  <2>2. Live' = Live \cup {id}
    BY <1>2, CartIdsAssumption DEF CartInv, CartTypeOK, Live
  <2>3. id \notin Live
    BY <1>2 DEF CartInv, CartsSeparate
  <2>4. \A t, u \in Sessions : cartOf'[t] = cartOf'[u] /\ cartOf'[t] # None => t = u
    BY <1>2, <2>3 DEF CartInv, CartTypeOK, CartsSeparate, Live
  <2>5. QED
    BY <1>2, <2>1, <2>2, <2>4 DEF CartInv, CartsSeparate
<1>3. QED
  BY <1>1, <1>2 DEF UpsertCart

LEMMA DeleteCartInv ==
  ASSUME CartInv, NEW id \in CartIds, DeleteCart(id)
  PROVE  /\ cartOf' \in [Sessions -> CartIds \cup {None}]
         /\ used' = used
         /\ lines' \in [CartIds -> Lines]
         /\ CartsSeparate'
<1> USE DEF DeleteCart
<1>1. cartOf' \in [Sessions -> CartIds \cup {None}] /\ used' = used
  BY DEF CartInv, CartTypeOK
<1>2. lines' \in [CartIds -> Lines]
  BY NoLinesTyped DEF CartInv, CartTypeOK
<1>3. Live' = Live \ {id}
  BY DEF Live, CartInv, CartTypeOK
<1>4. \A c \in CartIds : lines'[c] # NoLines => lines[c] # NoLines /\ (c = id => id \notin Live)
  BY DEF CartInv, CartTypeOK
<1>5. \A c \in CartIds : lines'[c] # NoLines => c \in Live'
  BY <1>3, <1>4 DEF CartInv, CartsSeparate
<1>6. \A s, t \in Sessions : cartOf'[s] = cartOf'[t] /\ cartOf'[s] # None => s = t
  BY DEF CartInv, CartsSeparate
<1>7. QED
  BY <1>1, <1>2, <1>3, <1>5, <1>6 DEF CartInv, CartsSeparate

\* Every step on the carts keeps them well formed and apart.
LEMMA CartStepInv == ASSUME CartInv, CartStep PROVE CartInv'
<1>1. ASSUME NEW s \in Sessions, GetCart(s) PROVE CartInv'
  <2>1. PICK id \in CartIds : UpsertCart(s, id)
    BY <1>1 DEF GetCart
  <2>2. QED
    BY <1>1, <2>1, UpsertCartInv DEF GetCart, CartInv, CartTypeOK
<1>2. ASSUME NEW s \in Sessions, ClearCart(s) PROVE CartInv'
  <2>1. cartOf[s] \in CartIds
    BY <1>2 DEF ClearCart, CartInv, CartTypeOK
  <2>2. QED
    BY <1>2, <2>1, DeleteCartInv DEF ClearCart, CartInv, CartTypeOK
<1>3. ASSUME NEW s \in Sessions, NEW p \in Products, RemoveItem(s, p) PROVE CartInv'
  <2>1. cartOf[s] \in CartIds /\ cartOf[s] \in Live
    BY <1>3 DEF RemoveItem, CartInv, CartTypeOK, Live
  <2>2. QED
    BY <1>3, <2>1, WriteLine DEF RemoveItem, CartInv, CartTypeOK
<1>4. ASSUME NEW h \in Shoppers, NEW s \in Sessions, NEW p \in Products,
             NEW q \in Quantities, BeginAdd(h, s, p, q)
      PROVE  CartInv'
  <2>1. PICK id \in CartIds :
          /\ UpsertCart(s, id)
          /\ shopping' = [shopping EXCEPT ![h] =
               [pc |-> "check", cart |-> id, product |-> p, quantity |-> q]]
    BY <1>4 DEF BeginAdd
  <2>2. [pc |-> "check", cart |-> id, product |-> p, quantity |-> q] \in Shopping
    BY DEF Shopping
  <2>3. QED
    BY <1>4, <2>1, <2>2, UpsertCartInv DEF BeginAdd, CartInv, CartTypeOK
<1>5. ASSUME NEW h \in Shoppers, NEW s \in Sessions, NEW p \in Products,
             NEW q \in Quantities, BeginSet(h, s, p, q)
      PROVE  CartInv'
  <2>1. [pc |-> "set", session |-> s, product |-> p, quantity |-> q] \in Shopping
    BY DEF Shopping
  <2>2. QED
    BY <1>5, <2>1 DEF BeginSet, CartInv, CartTypeOK, CartsSeparate, Live
<1>6. ASSUME NEW h \in Shoppers, CheckAdd(h) PROVE CartInv'
  <2>1. [shopping[h] EXCEPT !.pc = "insert"] \in Shopping
    BY <1>6, ShoppingShape DEF CheckAdd, CartInv, Shopping
  <2>2. shopping' \in [Shoppers -> Shopping \cup {None}]
    BY <1>6, <2>1 DEF CheckAdd, CartInv, CartTypeOK
  <2>3. QED
    BY <1>6, <2>2 DEF CheckAdd, CartInv, CartTypeOK, CartsSeparate, Live
<1>7. ASSUME NEW h \in Shoppers, InsertLine(h) PROVE CartInv'
  <2>1. shopping' \in [Shoppers -> Shopping \cup {None}]
    BY <1>7 DEF InsertLine, CartInv, CartTypeOK
  <2>2. CASE UNCHANGED lines
    BY <1>7, <2>1, <2>2 DEF InsertLine, CartInv, CartTypeOK, CartsSeparate, Live
  <2>3. CASE /\ shopping[h].cart \in Live
             /\ lines' = [lines EXCEPT ![shopping[h].cart][shopping[h].product]
                            = @ + shopping[h].quantity]
    <3> DEFINE c == shopping[h].cart
               p == shopping[h].product
               n == lines[c][p] + shopping[h].quantity
    <3>1. c \in CartIds /\ p \in Products /\ shopping[h].quantity \in Nat
      BY <1>7, ShoppingShape, QuantitiesAssumption DEF InsertLine, CartInv
    <3>2. n \in Nat
      BY <3>1 DEF CartInv, CartTypeOK, Lines
    <3>3. lines' = [lines EXCEPT ![c][p] = n]
      BY <2>3
    <3>4. UNCHANGED <<cartOf, used>>
      BY <1>7 DEF InsertLine
    <3>5. lines' \in [CartIds -> Lines] /\ CartsSeparate'
      BY <2>3, <3>1, <3>2, <3>3, <3>4, WriteLine
    <3>6. QED
      BY <2>1, <3>4, <3>5 DEF CartInv, CartTypeOK
  <2>4. QED
    BY <1>7, <2>2, <2>3 DEF InsertLine
<1>8. ASSUME NEW h \in Shoppers, SetLine(h) PROVE CartInv'
  <2> DEFINE c == cartOf[shopping[h].session]
             p == shopping[h].product
             n == shopping[h].quantity
  <2>1. shopping' \in [Shoppers -> Shopping \cup {None}]
    BY <1>8 DEF SetLine, CartInv, CartTypeOK
  <2>2. CASE UNCHANGED lines
    BY <1>8, <2>1, <2>2 DEF SetLine, CartInv, CartTypeOK, CartsSeparate, Live
  <2>3. CASE c # None /\ lines' = [lines EXCEPT ![c][p] = n]
    <3>1. shopping[h].session \in Sessions /\ p \in Products /\ n \in Nat
      BY <1>8, ShoppingShape, QuantitiesAssumption DEF SetLine, CartInv
    <3>2. c \in CartIds /\ c \in Live
      BY <2>3, <3>1 DEF CartInv, CartTypeOK, Live
    <3>3. UNCHANGED <<cartOf, used>>
      BY <1>8 DEF SetLine
    <3>4. lines' \in [CartIds -> Lines] /\ CartsSeparate'
      BY <2>3, <3>1, <3>2, <3>3, WriteLine
    <3>5. QED
      BY <2>1, <3>3, <3>4 DEF CartInv, CartTypeOK
  <2>4. QED
    BY <1>8, <2>2, <2>3 DEF SetLine
<1>9. ASSUME NEW h \in Shoppers, DropShopping(h) PROVE CartInv'
  BY <1>9 DEF DropShopping, CartInv, CartTypeOK, CartsSeparate, Live
<1>10. QED
  BY <1>1, <1>2, <1>3, <1>4, <1>5, <1>6, <1>7, <1>8, <1>9 DEF CartStep

\* Outside CartStep, only the end of a checkout touches the carts.
LEMMA CartOtherSteps ==
  ASSUME [Next]_vars
  PROVE  \/ CartStep
         \/ \E b \in Buyers : ClearOrderedCart(b)
         \/ UNCHANGED cartVars
<1>1. CASE PlaceStep
  BY <1>1 DEF PlaceStep, BeginPlace, FindCart, ReadItems, CommitOrder, StoreNotification,
              PublishEvent, DropPlacing
<1>2. CASE CloseStep
  BY <1>2 DEF CloseStep, SetStatus, ReleaseStock, DropClosing
<1>3. CASE PaymentStep
  BY <1>3 DEF PaymentStep, PaymentSucceeded, PaymentFailed
<1>4. CASE \E k \in Keys : Age(k)
  BY <1>4 DEF Age
<1>5. CASE ReapStep
  BY <1>5 DEF ReapStep, ReapBatch
<1>6. CASE UNCHANGED vars
  BY <1>6 DEF vars
<1>7. QED
  BY <1>1, <1>2, <1>3, <1>4, <1>5, <1>6 DEF Next

-----------------------------------------------------------------------------
(***************************************************************************)
(* The orders and the requests that write them.                            *)
(***************************************************************************)

\* What a POST /orders in flight carries, by its step.
LEMMA PlacingShape ==
  ASSUME OrdersTypeOK, NEW b \in Buyers, placing[b] # None
  PROVE  /\ placing[b].key \in Keys
         /\ placing[b].pc = "find_cart" => placing[b].session \in Sessions
         /\ placing[b].pc # "find_cart" => placing[b].cart \in CartIds
         /\ placing[b].pc \in {"commit", "notify", "publish", "clear"} =>
              /\ placing[b].lines \in Lines
              /\ placing[b].first \in Products
              /\ placing[b] = [pc |-> placing[b].pc, key |-> placing[b].key,
                               cart |-> placing[b].cart, lines |-> placing[b].lines,
                               first |-> placing[b].first]
  BY DEF OrdersTypeOK, Placing

\* A request's step from one value to another.
LEMMA PlacingMoves ==
  ASSUME OrdersTypeOK, NEW b \in Buyers, NEW r \in Placing \cup {None},
         placing' = [placing EXCEPT ![b] = r]
  PROVE  /\ placing' \in [Buyers -> Placing \cup {None}]
         /\ placing'[b] = r
         /\ \A d \in Buyers \ {b} : placing'[d] = placing[d]
  BY DEF OrdersTypeOK

\* ... when only its step changes.
LEMMA PlacingAdvances ==
  ASSUME OrdersTypeOK, NEW b \in Buyers, placing[b] # None,
         placing[b].pc \in {"commit", "notify", "publish"},
         NEW pc \in {"notify", "publish", "clear"},
         placing' = [placing EXCEPT ![b].pc = pc]
  PROVE  /\ placing' \in [Buyers -> Placing \cup {None}]
         /\ placing'[b] = [pc |-> pc, key |-> placing[b].key, cart |-> placing[b].cart,
                           lines |-> placing[b].lines, first |-> placing[b].first]
         /\ \A d \in Buyers \ {b} : placing'[d] = placing[d]
<1> DEFINE r == [placing[b] EXCEPT !.pc = pc]
<1>1. r = [pc |-> pc, key |-> placing[b].key, cart |-> placing[b].cart,
           lines |-> placing[b].lines, first |-> placing[b].first]
  <2>1. placing[b] \in [pc : {"commit", "notify", "publish", "clear"}, key : Keys,
                        cart : CartIds, lines : Lines, first : Products]
    BY DEF OrdersTypeOK, Placing
  <2>2. QED
    BY <2>1
<1>2. r \in Placing
  BY <1>1, PlacingShape DEF Placing
<1>3. placing' = [placing EXCEPT ![b] = r]
  OBVIOUS
<1>4. QED
  BY <1>1, <1>2, <1>3, PlacingMoves

\* What every UPDATE of the orders does to the table: no order appears or goes,
\* and every order keeps its items.
Rewritten ==
  /\ orders' \in [Keys -> Order \cup {None}]
  /\ \A k \in Keys :
       /\ orders'[k] = None <=> orders[k] = None
       /\ orders[k] # None => /\ orders'[k].lines = orders[k].lines
                              /\ orders'[k].first = orders[k].first

LEMMA RewriteRow ==
  ASSUME OrdersTypeOK, NEW k \in Keys, NEW row \in Order, orders[k] # None,
         row.lines = orders[k].lines, row.first = orders[k].first,
         orders' = [orders EXCEPT ![k] = row]
  PROVE  Rewritten
  BY OrderAssumption DEF OrdersTypeOK, Rewritten

LEMMA SetStatusRewrites ==
  ASSUME OrdersTypeOK, NEW c \in Closers, NEW k \in Keys, NEW status, SetStatus(c, k, status)
  PROVE  Rewritten
<1> DEFINE row == [orders[k] EXCEPT !.status = status]
<1>1. row \in Order /\ row.lines = orders[k].lines /\ row.first = orders[k].first
  BY DEF SetStatus, OrdersTypeOK, Order, Allowed
<1>2. orders' = [orders EXCEPT ![k] = row] /\ orders[k] # None
  BY DEF SetStatus
<1>3. QED
  BY <1>1, <1>2, RewriteRow

LEMMA PaymentRewrites ==
  ASSUME OrdersTypeOK, NEW k \in Keys, PaymentSucceeded(k) \/ PaymentFailed(k)
  PROVE  Rewritten
<1> DEFINE paid == [orders[k] EXCEPT !.payment = "paid", !.status = "confirmed"]
           failed == [orders[k] EXCEPT !.payment = "failed"]
<1>1. orders[k] \in Order
  BY DEF PaymentSucceeded, PaymentFailed, OrdersTypeOK
<1>2. paid \in Order /\ paid.lines = orders[k].lines /\ paid.first = orders[k].first
  BY <1>1 DEF Order, OrderStatuses, PaymentStatuses
<1>3. failed \in Order /\ failed.lines = orders[k].lines /\ failed.first = orders[k].first
  BY <1>1 DEF Order, PaymentStatuses
<1>4. CASE PaymentSucceeded(k)
  BY <1>2, <1>4, RewriteRow DEF PaymentSucceeded
<1>5. CASE PaymentFailed(k)
  BY <1>3, <1>5, RewriteRow DEF PaymentFailed
<1>6. QED
  BY <1>4, <1>5

LEMMA AgeRewrites ==
  ASSUME OrdersTypeOK, NEW k \in Keys, Age(k)
  PROVE  Rewritten
<1> DEFINE row == [orders[k] EXCEPT !.stale = TRUE]
<1>1. row \in Order /\ row.lines = orders[k].lines /\ row.first = orders[k].first
  BY DEF Age, OrdersTypeOK, Order
<1>2. orders' = [orders EXCEPT ![k] = row] /\ orders[k] # None
  BY DEF Age
<1>3. QED
  BY <1>1, <1>2, RewriteRow

LEMMA ReapRewrites ==
  ASSUME OrdersTypeOK, NEW batch \in SUBSET Keys, ReapBatch(batch)
  PROVE  Rewritten
<1>1. ASSUME NEW k \in batch
      PROVE  /\ orders[k] # None
             /\ Cancelled(orders[k]) \in Order
             /\ Cancelled(orders[k]).lines = orders[k].lines
             /\ Cancelled(orders[k]).first = orders[k].first
  <2>1. orders[k] # None /\ orders[k] \in Order
    BY <1>1 DEF ReapBatch, Reapable, OrdersTypeOK
  <2>2. QED
    BY <2>1 DEF Cancelled, Order, OrderStatuses
<1>2. orders' = [k \in Keys |-> IF k \in batch THEN Cancelled(orders[k]) ELSE orders[k]]
  BY DEF ReapBatch
<1>3. QED
  BY <1>1, <1>2, OrderAssumption DEF OrdersTypeOK, Rewritten

\* The transaction, when the key is free.
LEMMA StoreOrderFacts ==
  ASSUME OrdersTypeOK, NEW b \in Buyers, placing[b] # None, placing[b].pc = "commit",
         orders[placing[b].key] = None, StoreOrder(b)
  PROVE  /\ orders' \in [Keys -> Order \cup {None}]
         /\ orders'[placing[b].key] = [status |-> "pending", payment |-> "pending",
              lines |-> placing[b].lines, first |-> placing[b].first, stale |-> FALSE]
         /\ orders'[placing[b].key] # None
         /\ \A k \in Keys : k # placing[b].key => orders'[k] = orders[k]
         /\ placing' \in [Buyers -> Placing \cup {None}]
         /\ placing'[b] = [pc |-> "notify", key |-> placing[b].key, cart |-> placing[b].cart,
                           lines |-> placing[b].lines, first |-> placing[b].first]
         /\ \A d \in Buyers \ {b} : placing'[d] = placing[d]
         /\ unreleased' \in [Keys -> SUBSET Products]
<1> DEFINE row == [status |-> "pending", payment |-> "pending",
                   lines |-> placing[b].lines, first |-> placing[b].first, stale |-> FALSE]
<1>1. placing[b].key \in Keys /\ row \in Order
  BY PlacingShape DEF Order, OrderStatuses, PaymentStatuses
<1>2. orders' = [orders EXCEPT ![placing[b].key] = row]
  BY DEF StoreOrder
<1>3. /\ orders' \in [Keys -> Order \cup {None}]
      /\ orders'[placing[b].key] = row
      /\ \A k \in Keys : k # placing[b].key => orders'[k] = orders[k]
  BY <1>1, <1>2 DEF OrdersTypeOK
<1>4. orders'[placing[b].key] # None
  BY <1>1, <1>3, OrderAssumption
<1>5. /\ placing' \in [Buyers -> Placing \cup {None}]
      /\ placing'[b] = [pc |-> "notify", key |-> placing[b].key, cart |-> placing[b].cart,
                        lines |-> placing[b].lines, first |-> placing[b].first]
      /\ \A d \in Buyers \ {b} : placing'[d] = placing[d]
  BY PlacingAdvances DEF StoreOrder
<1>6. unreleased' \in [Keys -> SUBSET Products]
  BY <1>1 DEF StoreOrder, OrdersTypeOK, Bought
<1>7. QED
  BY <1>3, <1>4, <1>5, <1>6

\* The rows, handlers and messages around an order stay well formed.
LEMMA PlaceStepTyped ==
  ASSUME CartTypeOK, OrdersTypeOK, PlaceStep
  PROVE  OrdersTypeOK'
<1>1. ASSUME NEW b \in Buyers, NEW k \in Keys, NEW s \in Sessions, BeginPlace(b, k, s)
      PROVE  OrdersTypeOK'
  <2>1. [pc |-> "find_cart", key |-> k, session |-> s] \in Placing
    BY DEF Placing
  <2>2. QED
    BY <1>1, <2>1, PlacingMoves DEF BeginPlace, OrdersTypeOK
<1>2. ASSUME NEW b \in Buyers, Return(b),
             UNCHANGED <<orders, closing, notified, announced, unreleased>>
      PROVE  OrdersTypeOK'
  BY <1>2, PlacingMoves DEF Return, OrdersTypeOK
<1>3. ASSUME NEW b \in Buyers, FindCart(b) PROVE OrdersTypeOK'
  <2> DEFINE id == cartOf[placing[b].session]
             r == [pc |-> "read_items", key |-> placing[b].key, cart |-> id]
  <2>1. CASE id = None
    BY <1>2, <1>3, <2>1 DEF FindCart
  <2>2. CASE id # None
    <3>1. id \in CartIds /\ placing[b].key \in Keys
      BY <1>3, <2>2, PlacingShape DEF FindCart, CartTypeOK
    <3>2. r \in Placing
      BY <3>1 DEF Placing
    <3>3. placing' = [placing EXCEPT ![b] = r]
      BY <1>3, <2>2 DEF FindCart
    <3>4. QED
      BY <1>3, <3>2, <3>3, PlacingMoves DEF FindCart, OrdersTypeOK
  <2>3. QED
    BY <2>1, <2>2
<1>4. ASSUME NEW b \in Buyers, ReadItems(b) PROVE OrdersTypeOK'
  <2> DEFINE items == lines[placing[b].cart]
  <2>1. CASE Return(b)
    BY <1>2, <1>4, <2>1 DEF ReadItems
  <2>2. ASSUME NEW first \in Bought(items),
               placing' = [placing EXCEPT ![b] =
                 [pc |-> "commit", key |-> placing[b].key, cart |-> placing[b].cart,
                  lines |-> items, first |-> first]]
        PROVE  OrdersTypeOK'
    <3>1. placing[b].key \in Keys /\ placing[b].cart \in CartIds
      BY <1>4, PlacingShape DEF ReadItems
    <3>2. items \in Lines /\ first \in Products
      BY <3>1, <2>2 DEF CartTypeOK, Bought
    <3>3. [pc |-> "commit", key |-> placing[b].key, cart |-> placing[b].cart,
           lines |-> items, first |-> first] \in Placing
      BY <3>1, <3>2 DEF Placing
    <3>4. QED
      BY <1>4, <2>2, <3>3, PlacingMoves DEF ReadItems, OrdersTypeOK
  <2>3. QED
    BY <1>4, <2>1, <2>2 DEF ReadItems
<1>5. ASSUME NEW b \in Buyers, CommitOrder(b) PROVE OrdersTypeOK'
  <2>1. CASE orders[placing[b].key] = None /\ StoreOrder(b)
    BY <1>5, <2>1, StoreOrderFacts DEF CommitOrder, OrdersTypeOK
  <2>2. CASE Return(b) /\ UNCHANGED <<stock, orders, unreleased>>
    BY <1>2, <1>5, <2>2 DEF CommitOrder
  <2>3. QED
    BY <1>5, <2>1, <2>2 DEF CommitOrder
<1>6. ASSUME NEW b \in Buyers, StoreNotification(b) PROVE OrdersTypeOK'
  <2>1. placing' \in [Buyers -> Placing \cup {None}] /\ placing[b].key \in Keys
    BY <1>6, PlacingAdvances, PlacingShape DEF StoreNotification
  <2>2. QED
    BY <1>6, <2>1 DEF StoreNotification, OrdersTypeOK
<1>7. ASSUME NEW b \in Buyers, PublishEvent(b) PROVE OrdersTypeOK'
  <2>1. placing' \in [Buyers -> Placing \cup {None}] /\ placing[b].key \in Keys
    BY <1>7, PlacingAdvances, PlacingShape DEF PublishEvent
  <2>2. QED
    BY <1>7, <2>1 DEF PublishEvent, OrdersTypeOK
<1>8. ASSUME NEW b \in Buyers, ClearOrderedCart(b) PROVE OrdersTypeOK'
  BY <1>2, <1>8 DEF ClearOrderedCart
<1>9. ASSUME NEW b \in Buyers, DropPlacing(b) PROVE OrdersTypeOK'
  BY <1>2, <1>9 DEF DropPlacing
<1>10. QED
  BY <1>1, <1>3, <1>4, <1>5, <1>6, <1>7, <1>8, <1>9 DEF PlaceStep

LEMMA CloseStepTyped ==
  ASSUME OrdersTypeOK, CloseStep
  PROVE  OrdersTypeOK'
<1>1. ASSUME NEW c \in Closers, NEW k \in Keys, NEW status \in Requested, SetStatus(c, k, status)
      PROVE  OrdersTypeOK'
  <2>1. [key |-> k, delivered |-> status = "delivered"] \in Closing
    BY DEF Closing
  <2>2. closing' \in [Closers -> Closing \cup {None}]
    BY <1>1, <2>1 DEF SetStatus, OrdersTypeOK
  <2>3. Rewritten
    BY <1>1, SetStatusRewrites
  <2>4. QED
    BY <1>1, <2>2, <2>3 DEF SetStatus, Rewritten, OrdersTypeOK
<1>2. ASSUME NEW c \in Closers, ReleaseStock(c) PROVE OrdersTypeOK'
  <2>1. unreleased' = [unreleased EXCEPT ![closing[c].key] = {}] \/ UNCHANGED unreleased
    BY <1>2 DEF ReleaseStock
  <2>2. unreleased' \in [Keys -> SUBSET Products]
    BY <2>1 DEF OrdersTypeOK
  <2>3. closing' \in [Closers -> Closing \cup {None}]
    BY <1>2 DEF ReleaseStock, OrdersTypeOK
  <2>4. QED
    BY <1>2, <2>2, <2>3 DEF ReleaseStock, OrdersTypeOK
<1>3. ASSUME NEW c \in Closers, DropClosing(c) PROVE OrdersTypeOK'
  BY <1>3 DEF DropClosing, OrdersTypeOK
<1>4. QED
  BY <1>1, <1>2, <1>3 DEF CloseStep

LEMMA ReapStepTyped ==
  ASSUME OrdersTypeOK, NEW batch \in SUBSET Keys, ReapBatch(batch)
  PROVE  OrdersTypeOK'
<1>1. Rewritten
  BY ReapRewrites
<1>2. unreleased' \in [Keys -> SUBSET Products]
  <2>1. PICK joined \in [{orders[k].first : k \in batch} -> batch] :
          unreleased' = [k \in Keys |->
            unreleased[k] \ {p \in DOMAIN joined : joined[p] = k}]
    BY DEF ReapBatch
  <2>2. QED
    BY <2>1 DEF OrdersTypeOK
<1>3. QED
  BY <1>1, <1>2 DEF ReapBatch, Rewritten, OrdersTypeOK

\* Everything but the stock rows; carts are well formed because they are apart.
Typed == CartInv /\ OrdersTypeOK

LEMMA InitTyped == Init => Typed
<1> SUFFICES ASSUME Init PROVE CartInv /\ OrdersTypeOK
  BY DEF Typed
<1>1. CartTypeOK
  BY NoLinesTyped DEF Init, InitCart, CartTypeOK
<1>2. CartsSeparate
  BY DEF Init, InitCart, CartsSeparate, Live
<1>3. OrdersTypeOK
  BY DEF Init, InitOrders, OrdersTypeOK
<1>4. QED
  BY <1>1, <1>2, <1>3 DEF CartInv

LEMMA NextTyped == Typed /\ [Next]_vars => Typed'
<1> SUFFICES ASSUME Typed, [Next]_vars PROVE Typed'
  OBVIOUS
<1>1. CartInv'
  <2>1. ASSUME NEW b \in Buyers, ClearOrderedCart(b) PROVE CartInv'
    <3>1. placing[b].cart \in CartIds /\ DeleteCart(placing[b].cart) /\ UNCHANGED shopping
      BY <2>1, PlacingShape DEF ClearOrderedCart, Typed
    <3>2. QED
      BY <3>1, DeleteCartInv DEF Typed, CartInv, CartTypeOK
  <2>2. CASE UNCHANGED cartVars
    BY <2>2 DEF Typed, CartInv, CartTypeOK, CartsSeparate, Live, cartVars
  <2>3. QED
    BY <2>1, <2>2, CartOtherSteps, CartStepInv DEF Typed
<1>2. OrdersTypeOK'
  <2>1. CASE UNCHANGED orderVars
    BY <2>1 DEF Typed, OrdersTypeOK, orderVars
  <2>2. CASE PlaceStep
    BY <2>2, PlaceStepTyped DEF Typed, CartInv
  <2>3. CASE CloseStep
    BY <2>3, CloseStepTyped DEF Typed
  <2>4. CASE PaymentStep
    BY <2>4, PaymentRewrites
       DEF PaymentStep, PaymentSucceeded, PaymentFailed, Rewritten, Typed, OrdersTypeOK
  <2>5. CASE \E k \in Keys : Age(k)
    BY <2>5, AgeRewrites DEF Age, Rewritten, Typed, OrdersTypeOK
  <2>6. CASE ReapStep
    BY <2>6, ReapStepTyped DEF ReapStep, Typed
  <2>7. QED
    BY <2>1, <2>2, <2>3, <2>4, <2>5, <2>6 DEF Next, vars
<1>3. QED
  BY <1>1, <1>2 DEF Typed

LEMMA AlwaysTyped == Spec => []Typed
  BY InitTyped, NextTyped, PTL DEF Spec

\* Carts, cart requests, orders and their handlers stay well formed, whatever
\* becomes of the stock rows, which LedgerProofs is about.
THEOREM HandlersTyped == Spec => [](CartTypeOK /\ OrdersTypeOK)
<1>1. Typed => CartTypeOK /\ OrdersTypeOK
  BY DEF Typed, CartInv
<1>2. QED
  BY <1>1, AlwaysTyped, PTL

\* Items always belong to a cart that one session has.
THEOREM CartsStaySeparate == Spec => []CartsSeparate
<1>1. Typed => CartsSeparate
  BY DEF Typed, CartInv
<1>2. QED
  BY <1>1, AlwaysTyped, PTL

-----------------------------------------------------------------------------
(***************************************************************************)
(* What one step may do to the orders, to a checkout and to what is told.  *)
(***************************************************************************)

\* A checkout that stores its order.
Commits(b) ==
  /\ placing[b] # None
  /\ placing[b].pc = "commit"
  /\ orders[placing[b].key] = None
  /\ StoreOrder(b)
  /\ UNCHANGED <<notified, announced>>

LEMMA CommitCases ==
  ASSUME NEW b \in Buyers, CommitOrder(b)
  PROVE  Commits(b) \/ (Return(b) /\ UNCHANGED <<orders, notified, announced>>)
  BY DEF CommitOrder, Commits

LEMMA OrdersHistory ==
  ASSUME Typed, [Next]_vars
  PROVE  UNCHANGED orders \/ Rewritten \/ \E b \in Buyers : Commits(b)
<1>1. CASE PlaceStep
  BY <1>1, CommitCases DEF PlaceStep, BeginPlace, FindCart, ReadItems, StoreNotification,
              PublishEvent, ClearOrderedCart, DropPlacing
<1>2. CASE CloseStep
  BY <1>2, SetStatusRewrites DEF CloseStep, ReleaseStock, DropClosing, Typed
<1>3. CASE PaymentStep
  BY <1>3, PaymentRewrites DEF PaymentStep, Typed
<1>4. CASE \E k \in Keys : Age(k)
  BY <1>4, AgeRewrites DEF Typed
<1>5. CASE ReapStep
  BY <1>5, ReapRewrites DEF ReapStep, Typed
<1>6. CASE UNCHANGED orderVars
  BY <1>6 DEF orderVars
<1>7. QED
  BY <1>1, <1>2, <1>3, <1>4, <1>5, <1>6 DEF Next, vars

\* How a checkout gets past its commit, and on from there.
LEMMA PlacingHistory ==
  ASSUME Typed, [Next]_vars, NEW b \in Buyers, placing'[b] # None,
         placing'[b].pc \in {"notify", "publish", "clear"}
  PROVE  placing'[b] = placing[b] \/ Commits(b) \/ StoreNotification(b) \/ PublishEvent(b)
<1> USE DEF Typed
<1>1. ASSUME NEW d \in Buyers, NEW r, r = None \/ r.pc \in {"find_cart", "read_items", "commit"},
             placing' = [placing EXCEPT ![d] = r]
      PROVE  placing'[b] = placing[b]
  BY <1>1 DEF OrdersTypeOK
<1>2. ASSUME NEW d \in Buyers, Return(d) PROVE placing'[b] = placing[b]
  BY <1>1, <1>2 DEF Return
<1>3. ASSUME NEW d \in Buyers, d # b,
             Commits(d) \/ StoreNotification(d) \/ PublishEvent(d)
      PROVE  placing'[b] = placing[b]
  BY <1>3, PlacingAdvances DEF Commits, StoreOrder, StoreNotification, PublishEvent
<1>4. CASE PlaceStep
  <2>1. ASSUME NEW d \in Buyers, NEW k \in Keys, NEW s \in Sessions, BeginPlace(d, k, s)
        PROVE  placing'[b] = placing[b]
    BY <1>1, <2>1 DEF BeginPlace
  <2>2. ASSUME NEW d \in Buyers, FindCart(d) PROVE placing'[b] = placing[b]
    BY <1>1, <1>2, <2>2 DEF FindCart
  <2>3. ASSUME NEW d \in Buyers, ReadItems(d) PROVE placing'[b] = placing[b]
    BY <1>1, <1>2, <2>3 DEF ReadItems
  <2>4. ASSUME NEW d \in Buyers, ClearOrderedCart(d) \/ DropPlacing(d)
        PROVE  placing'[b] = placing[b]
    BY <1>2, <2>4 DEF ClearOrderedCart, DropPlacing
  <2>5. QED
    BY <1>2, <1>3, <1>4, <2>1, <2>2, <2>3, <2>4, CommitCases DEF PlaceStep
<1>5. CASE UNCHANGED placing
  BY <1>5
<1>6. CASE ~PlaceStep
  BY <1>5, <1>6
     DEF Next, CloseStep, SetStatus, ReleaseStock, DropClosing, PaymentStep, PaymentSucceeded,
         PaymentFailed, Age, ReapStep, ReapBatch, orderVars, vars
<1>7. QED
  BY <1>4, <1>6

\* Only two statements of a checkout tell anybody.
LEMMA TellingSteps ==
  ASSUME [Next]_vars
  PROVE  \/ UNCHANGED <<notified, announced>>
         \/ \E b \in Buyers : StoreNotification(b) \/ PublishEvent(b)
<1>1. CASE PlaceStep
  BY <1>1, CommitCases DEF PlaceStep, BeginPlace, FindCart, ReadItems, Commits, ClearOrderedCart,
              DropPlacing
<1>2. CASE ~PlaceStep
  BY <1>2
     DEF Next, CloseStep, SetStatus, ReleaseStock, DropClosing, PaymentStep, PaymentSucceeded,
         PaymentFailed, Age, ReapStep, ReapBatch, orderVars, vars
<1>3. QED
  BY <1>1, <1>2

\* A checkout that has just stored its order.
LEMMA CommitsFacts ==
  ASSUME OrdersTypeOK, NEW b \in Buyers, Commits(b)
  PROVE  /\ placing'[b].pc = "notify"
         /\ placing'[b].key = placing[b].key
         /\ placing[b].key \in Keys
         /\ orders'[placing[b].key] # None
         /\ orders'[placing[b].key].lines = placing'[b].lines
         /\ \A d \in Buyers \ {b} : placing'[d] = placing[d]
<1>1. /\ orders'[placing[b].key] = [status |-> "pending", payment |-> "pending",
            lines |-> placing[b].lines, first |-> placing[b].first, stale |-> FALSE]
      /\ orders'[placing[b].key] # None
      /\ placing'[b] = [pc |-> "notify", key |-> placing[b].key, cart |-> placing[b].cart,
                        lines |-> placing[b].lines, first |-> placing[b].first]
      /\ \A d \in Buyers \ {b} : placing'[d] = placing[d]
  BY StoreOrderFacts DEF Commits
<1>2. orders'[placing[b].key].lines = placing[b].lines
  BY <1>1
<1>3. /\ placing'[b].pc = "notify"
      /\ placing'[b].key = placing[b].key
      /\ placing'[b].lines = placing[b].lines
  BY <1>1
<1>4. placing[b].key \in Keys
  BY PlacingShape DEF Commits
<1>5. QED
  BY <1>1, <1>2, <1>3, <1>4

\* A checkout that has just told of its order.
LEMMA TellsFacts ==
  ASSUME OrdersTypeOK, NEW b \in Buyers, StoreNotification(b) \/ PublishEvent(b)
  PROVE  /\ placing'[b].key = placing[b].key
         /\ placing'[b].lines = placing[b].lines
<1>1. PICK pc \in {"notify", "publish", "clear"} : placing' = [placing EXCEPT ![b].pc = pc]
  BY DEF StoreNotification, PublishEvent
<1>2. placing'[b] = [pc |-> pc, key |-> placing[b].key, cart |-> placing[b].cart,
                     lines |-> placing[b].lines, first |-> placing[b].first]
  BY <1>1, PlacingAdvances DEF StoreNotification, PublishEvent
<1>3. QED
  BY <1>2

\* A stored order keeps its items whatever happens.
LEMMA ItemsKept ==
  ASSUME Typed, [Next]_vars, NEW k \in Keys, orders[k] # None
  PROVE  orders'[k] # None /\ orders'[k].lines = orders[k].lines
<1>1. ASSUME NEW b \in Buyers, Commits(b) PROVE orders'[k] = orders[k]
  <2>1. k # placing[b].key
    BY <1>1 DEF Commits
  <2>2. QED
    BY <1>1, <2>1, StoreOrderFacts DEF Commits, Typed
<1>2. QED
  BY <1>1, OrdersHistory DEF Rewritten

-----------------------------------------------------------------------------
\* Of several requests with one order key, one at most is past its commit, and
\* the order that is stored is that request's.
LEMMA WinnerNext == Typed /\ OneWinnerPerKey /\ [Next]_vars => OneWinnerPerKey'
<1> SUFFICES ASSUME Typed, OneWinnerPerKey, [Next]_vars PROVE OneWinnerPerKey'
  OBVIOUS
<1> USE DEF Typed
\* A request past its commit after the step was so before, or has just stored
\* its order.
<1>1. ASSUME NEW b \in Buyers, PastCommit(b)'
      PROVE  \/ Commits(b)
             \/ /\ PastCommit(b)
                /\ placing'[b].key = placing[b].key
                /\ placing'[b].lines = placing[b].lines
  <2>1. CASE placing'[b] = placing[b]
    BY <1>1, <2>1 DEF PastCommit
  <2>2. CASE StoreNotification(b) \/ PublishEvent(b)
    BY <2>2, TellsFacts DEF StoreNotification, PublishEvent, PastCommit
  <2>3. QED
    BY <1>1, <2>1, <2>2, PlacingHistory DEF PastCommit
\* The order that was just stored had no request past its commit.
<1>2. ASSUME NEW b \in Buyers, NEW d \in Buyers, Commits(b), PastCommit(d)
      PROVE  placing[d].key # placing[b].key
  BY <1>2 DEF Commits, OneWinnerPerKey, Placed
<1>3. ASSUME NEW b \in Buyers, NEW d \in Buyers, Commits(b), Commits(d) PROVE b = d
  <2>1. placing'[d].pc = "notify" /\ placing[d].pc = "commit"
    BY <1>3, CommitsFacts DEF Commits
  <2>2. \A e \in Buyers \ {b} : placing'[e] = placing[e]
    BY <1>3, CommitsFacts
  <2>3. QED
    BY <2>1, <2>2
<1>4. ASSUME NEW b \in Buyers, Commits(b)
      PROVE  /\ placing'[b].key = placing[b].key
             /\ placing'[b].key \in Keys
             /\ orders'[placing'[b].key] # None
             /\ orders'[placing'[b].key].lines = placing'[b].lines
  BY <1>4, CommitsFacts
<1>5. ASSUME NEW b \in Buyers, NEW d \in Buyers, PastCommit(b)', PastCommit(d)',
             placing'[b].key = placing'[d].key
      PROVE  b = d
  BY <1>1, <1>2, <1>3, <1>4, <1>5 DEF OneWinnerPerKey
<1>6. ASSUME NEW b \in Buyers, PastCommit(b)'
      PROVE  /\ placing'[b].key \in Placed'
             /\ orders'[placing'[b].key].lines = placing'[b].lines
  <2>1. CASE Commits(b)
    BY <1>4, <2>1 DEF Placed
  <2>2. CASE /\ PastCommit(b)
             /\ placing'[b].key = placing[b].key
             /\ placing'[b].lines = placing[b].lines
    <3>1. placing[b].key \in Placed /\ orders[placing[b].key].lines = placing[b].lines
      BY <2>2 DEF OneWinnerPerKey
    <3>2. QED
      BY <2>2, <3>1, ItemsKept DEF Placed
  <2>3. QED
    BY <1>1, <1>6, <2>1, <2>2
<1>7. QED
  BY <1>5, <1>6 DEF OneWinnerPerKey

LEMMA WinnerInit == Init => OneWinnerPerKey
  BY DEF Init, InitOrders, OneWinnerPerKey, PastCommit

\* Duplicate POSTs with one order key place one order.
THEOREM OneWinner == Spec => []OneWinnerPerKey
  BY WinnerInit, WinnerNext, AlwaysTyped, PTL DEF Spec

\* Publishing and clearing come after the notification is stored.
NotifiedFirst ==
  \A b \in Buyers : placing[b] # None /\ placing[b].pc \in {"publish", "clear"}
                    => placing[b].key \in notified

LEMMA ToldNext ==
  Typed /\ OneWinnerPerKey /\ ToldOnlyOfStored /\ NotifiedFirst /\ [Next]_vars
    => ToldOnlyOfStored' /\ NotifiedFirst'
<1> SUFFICES ASSUME Typed, OneWinnerPerKey, ToldOnlyOfStored, NotifiedFirst, [Next]_vars
             PROVE  ToldOnlyOfStored' /\ NotifiedFirst'
  OBVIOUS
<1> USE DEF Typed
<1>1. Placed \subseteq Placed'
  BY ItemsKept DEF Placed
<1>2. ASSUME NEW b \in Buyers, StoreNotification(b)
      PROVE  notified' = notified \cup {placing[b].key} /\ placing[b].key \in Placed
             /\ announced' = announced
  BY <1>2 DEF StoreNotification, OneWinnerPerKey, PastCommit
<1>3. ASSUME NEW b \in Buyers, PublishEvent(b)
      PROVE  announced' = announced \cup {placing[b].key} /\ placing[b].key \in notified
             /\ notified' = notified
  BY <1>3 DEF PublishEvent, NotifiedFirst
<1>4. ToldOnlyOfStored' /\ notified \subseteq notified'
  BY <1>1, <1>2, <1>3, TellingSteps DEF ToldOnlyOfStored
<1>5. NotifiedFirst'
  <2> SUFFICES ASSUME NEW b \in Buyers, placing'[b] # None, placing'[b].pc \in {"publish", "clear"}
               PROVE  placing'[b].key \in notified'
    BY DEF NotifiedFirst
  <2>1. CASE placing'[b] = placing[b]
    BY <1>4, <2>1 DEF NotifiedFirst
  <2>2. CASE Commits(b)
    BY <2>2, CommitsFacts
  <2>3. CASE StoreNotification(b)
    BY <1>2, <2>3, TellsFacts
  <2>4. CASE PublishEvent(b)
    BY <1>3, <2>4, TellsFacts
  <2>5. QED
    BY <2>1, <2>2, <2>3, <2>4, PlacingHistory
<1>6. QED
  BY <1>4, <1>5

\* Nobody is told of an order that is not stored, nor sees an event that no
\* notification row records.
THEOREM ToldTruly == Spec => []ToldOnlyOfStored
<1>1. Init => ToldOnlyOfStored /\ NotifiedFirst
  BY DEF Init, InitOrders, ToldOnlyOfStored, NotifiedFirst
<1>2. QED
  BY <1>1, ToldNext, OneWinner, AlwaysTyped, PTL DEF Spec

-----------------------------------------------------------------------------
(***************************************************************************)
(* The orders table, as this module writes it, implements OrderBook.       *)
(***************************************************************************)

LEMMA SeenRows ==
  ASSUME NEW row \in Order
  PROVE  /\ Seen(row) = [status |-> row.status, payment |-> row.payment,
                         contents |-> <<row.lines, row.first>>]
         /\ Seen(row) # None
<1>1. Seen(row) = [status |-> row.status, payment |-> row.payment,
                   contents |-> <<row.lines, row.first>>]
  BY OrderAssumption DEF Seen
<1>2. Seen(row) \in Book!Entry
  BY <1>1 DEF Order, OrderStatuses, PaymentStatuses, Book!Entry, Book!FarmerStatuses
<1>3. QED
  BY <1>1, <1>2, EntryAssumption

LEMMA SeenUpdate ==
  ASSUME OrdersTypeOK, NEW k \in Keys, NEW row \in Order,
         orders' = [orders EXCEPT ![k] = row]
  PROVE  Entries' = [Entries EXCEPT ![k] = Seen(row)]
  BY DEF OrdersTypeOK, Entries, Seen

LEMMA SeenEntry ==
  ASSUME OrdersTypeOK, NEW k \in Keys, orders[k] # None
  PROVE  /\ orders[k] \in Order
         /\ Entries[k] = [status |-> orders[k].status, payment |-> orders[k].payment,
                          contents |-> <<orders[k].lines, orders[k].first>>]
         /\ Entries[k] # None
  BY SeenRows DEF OrdersTypeOK, Entries

LEMMA CommitPlaces ==
  ASSUME OrdersTypeOK, NEW b \in Buyers, Commits(b)
  PROVE  placing[b].key \in Keys /\ Book!Place(placing[b].key)
<1> DEFINE k == placing[b].key
           row == [status |-> "pending", payment |-> "pending", lines |-> placing[b].lines,
                   first |-> placing[b].first, stale |-> FALSE]
<1>1. k \in Keys /\ row \in Order /\ placing[b].lines \in Lines /\ placing[b].first \in Products
  BY PlacingShape DEF Commits, Order, OrderStatuses, PaymentStatuses
<1>2. Entries' = [Entries EXCEPT ![k] = Seen(row)]
  BY <1>1, SeenUpdate DEF Commits, StoreOrder
<1>3. Entries[k] = None
  BY <1>1 DEF Commits, Entries, Seen
<1>4. Seen(row) = [status |-> "pending", payment |-> "pending",
                   contents |-> <<placing[b].lines, placing[b].first>>]
  BY <1>1, SeenRows
<1>5. Entries'[k] = Seen(row)
  BY <1>1, <1>2 DEF Entries
<1>6. Seen(row) \in [status : {"pending"}, payment : {"pending"},
                     contents : Lines \X Products]
  <2>1. <<placing[b].lines, placing[b].first>> \in Lines \X Products
    BY <1>1
  <2>2. QED
    BY <1>4, <2>1
<1>7. Entries' = [Entries EXCEPT ![k] = Entries'[k]]
  BY <1>2, <1>5, Zenon
<1>8. QED
  BY <1>1, <1>3, <1>5, <1>6, <1>7 DEF Book!Place

LEMMA SetStatusAdvances ==
  ASSUME OrdersTypeOK, NEW c \in Closers, NEW k \in Keys, NEW status, SetStatus(c, k, status)
  PROVE  Book!Advance(k)
<1> DEFINE row == [orders[k] EXCEPT !.status = status]
<1>1. /\ orders[k] \in Order
      /\ orders[k] # None
      /\ Entries[k] = [status |-> orders[k].status, payment |-> orders[k].payment,
                       contents |-> <<orders[k].lines, orders[k].first>>]
      /\ Entries[k] # None
  BY SeenEntry DEF SetStatus
<1>2. /\ row \in Order
      /\ row.status = status
      /\ row.payment = orders[k].payment
      /\ row.lines = orders[k].lines
      /\ row.first = orders[k].first
  BY <1>1 DEF SetStatus, Order, Allowed
<1>3. Entries' = [Entries EXCEPT ![k] = Seen(row)]
  BY <1>2, SeenUpdate DEF SetStatus
<1>4. Seen(row) = [status |-> status, payment |-> orders[k].payment,
                   contents |-> <<orders[k].lines, orders[k].first>>]
  BY <1>2, SeenRows
<1>5. Seen(row) = [Entries[k] EXCEPT !.status = status]
  BY <1>1, <1>4
<1>6. Entries' = [Entries EXCEPT ![k].status = status]
  BY <1>3, <1>5
<1>7. status \in Book!FarmerStatuses
  BY DEF SetStatus, Allowed, OrderStatuses, Book!FarmerStatuses
<1>8. QED
  BY <1>1, <1>6, <1>7 DEF Book!Advance

LEMMA SucceededSettles ==
  ASSUME OrdersTypeOK, NEW k \in Keys, PaymentSucceeded(k)
  PROVE  Book!Settle(k)
<1> DEFINE row == [orders[k] EXCEPT !.payment = "paid", !.status = "confirmed"]
<1>1. /\ orders[k] \in Order
      /\ Entries[k] = [status |-> orders[k].status, payment |-> orders[k].payment,
                       contents |-> <<orders[k].lines, orders[k].first>>]
      /\ Entries[k] # None
  BY SeenEntry DEF PaymentSucceeded
<1>2. /\ row \in Order
      /\ row.status = "confirmed"
      /\ row.payment = "paid"
      /\ row.lines = orders[k].lines
      /\ row.first = orders[k].first
  BY <1>1 DEF Order, OrderStatuses, PaymentStatuses
<1>3. Entries' = [Entries EXCEPT ![k] = Seen(row)]
  <2>1. orders' = [orders EXCEPT ![k] = row]
    BY DEF PaymentSucceeded, OrdersTypeOK
  <2>2. QED
    BY <1>2, <2>1, SeenUpdate
<1>4. Seen(row) = [status |-> "confirmed", payment |-> "paid",
                   contents |-> <<orders[k].lines, orders[k].first>>]
  BY <1>2, SeenRows
<1>5. /\ Entries[k].payment = "pending"
      /\ Entries[k].contents = <<orders[k].lines, orders[k].first>>
  BY <1>1 DEF PaymentSucceeded
<1>6. QED
  BY <1>1, <1>3, <1>4, <1>5 DEF Book!Settle

LEMMA FailedDeclines ==
  ASSUME OrdersTypeOK, NEW k \in Keys, PaymentFailed(k)
  PROVE  Book!Decline(k)
<1> DEFINE row == [orders[k] EXCEPT !.payment = "failed"]
<1>1. /\ orders[k] \in Order
      /\ Entries[k] = [status |-> orders[k].status, payment |-> orders[k].payment,
                       contents |-> <<orders[k].lines, orders[k].first>>]
      /\ Entries[k] # None
  BY SeenEntry DEF PaymentFailed
<1>2. /\ row \in Order
      /\ row.status = orders[k].status
      /\ row.payment = "failed"
      /\ row.lines = orders[k].lines
      /\ row.first = orders[k].first
  BY <1>1 DEF Order, PaymentStatuses
<1>3. Entries' = [Entries EXCEPT ![k] = Seen(row)]
  BY <1>2, SeenUpdate DEF PaymentFailed
<1>4. Seen(row) = [status |-> orders[k].status, payment |-> "failed",
                   contents |-> <<orders[k].lines, orders[k].first>>]
  BY <1>2, SeenRows
<1>5. Seen(row) = [Entries[k] EXCEPT !.payment = "failed"]
  BY <1>1, <1>4
<1>6. Entries' = [Entries EXCEPT ![k].payment = "failed"]
  BY <1>3, <1>5
<1>7. QED
  BY <1>1, <1>6 DEF Book!Decline

\* Getting old is not seen.
LEMMA AgeUnseen ==
  ASSUME OrdersTypeOK, NEW k \in Keys, Age(k)
  PROVE  UNCHANGED Entries
<1> DEFINE row == [orders[k] EXCEPT !.stale = TRUE]
<1>1. /\ orders[k] \in Order
      /\ Entries[k] = [status |-> orders[k].status, payment |-> orders[k].payment,
                       contents |-> <<orders[k].lines, orders[k].first>>]
  BY SeenEntry DEF Age
<1>2. /\ row \in Order
      /\ row.status = orders[k].status
      /\ row.payment = orders[k].payment
      /\ row.lines = orders[k].lines
      /\ row.first = orders[k].first
  BY <1>1 DEF Order
<1>3. Entries' = [Entries EXCEPT ![k] = Seen(row)]
  BY <1>2, SeenUpdate DEF Age
<1>4. Seen(row) = Entries[k]
  BY <1>1, <1>2, SeenRows
<1>5. QED
  BY <1>3, <1>4 DEF Entries

LEMMA ReapExpires ==
  ASSUME OrdersTypeOK, NEW batch \in SUBSET Keys, ReapBatch(batch)
  PROVE  Book!Expire(batch)
<1>1. ASSUME NEW k \in batch
      PROVE  /\ Entries[k] # None
             /\ Entries[k].status = "pending"
             /\ Entries[k].payment = "pending"
             /\ Seen(Cancelled(orders[k])) = [Entries[k] EXCEPT !.status = "cancelled"]
  <2>1. /\ k \in Keys
        /\ orders[k] # None
        /\ orders[k].status = "pending"
        /\ orders[k].payment = "pending"
    BY <1>1 DEF ReapBatch, Reapable
  <2>2. /\ orders[k] \in Order
        /\ Entries[k] = [status |-> orders[k].status, payment |-> orders[k].payment,
                         contents |-> <<orders[k].lines, orders[k].first>>]
        /\ Entries[k] # None
    BY <2>1, SeenEntry
  <2>3. /\ Cancelled(orders[k]) \in Order
        /\ Cancelled(orders[k]).status = "cancelled"
        /\ Cancelled(orders[k]).payment = orders[k].payment
        /\ Cancelled(orders[k]).lines = orders[k].lines
        /\ Cancelled(orders[k]).first = orders[k].first
    BY <2>2 DEF Cancelled, Order, OrderStatuses
  <2>4. Seen(Cancelled(orders[k])) = [status |-> "cancelled", payment |-> orders[k].payment,
          contents |-> <<orders[k].lines, orders[k].first>>]
    BY <2>3, SeenRows
  <2>5. Seen(Cancelled(orders[k])) = [Entries[k] EXCEPT !.status = "cancelled"]
    BY <2>2, <2>4
  <2>6. Entries[k].status = "pending" /\ Entries[k].payment = "pending"
    BY <2>1, <2>2
  <2>7. QED
    BY <2>2, <2>5, <2>6
<1>2. orders' = [k \in Keys |-> IF k \in batch THEN Cancelled(orders[k]) ELSE orders[k]]
  BY DEF ReapBatch
<1>3. Entries' = [k \in Keys |-> IF k \in batch THEN Seen(Cancelled(orders[k])) ELSE Entries[k]]
  BY <1>2 DEF Entries, Seen
<1>4. Entries' = [k \in Keys |->
        IF k \in batch THEN [Entries[k] EXCEPT !.status = "cancelled"] ELSE Entries[k]]
  BY <1>1, <1>3
<1>5. QED
  BY <1>1, <1>4 DEF Book!Expire

\* Checkout, status changes, webhook and cron job implement the orders table.
THEOREM ImplementsBook == Spec => ImplementsOrderBook
<1>1. Init => Book!Init
  BY DEF Init, InitOrders, Book!Init, Entries, Seen
<1>2. Typed /\ [Next]_vars => [Book!Next]_Entries
  <2> SUFFICES ASSUME Typed, [Next]_vars PROVE [Book!Next]_Entries
    OBVIOUS
  <2> USE DEF Typed
  <2>1. CASE UNCHANGED orders
    BY <2>1 DEF Entries
  <2>2. CASE PlaceStep
    BY <2>1, <2>2, CommitCases, CommitPlaces
       DEF PlaceStep, BeginPlace, FindCart, ReadItems, StoreNotification, PublishEvent,
           ClearOrderedCart, DropPlacing, Book!Next
  <2>3. CASE CloseStep
    BY <2>1, <2>3, SetStatusAdvances DEF CloseStep, ReleaseStock, DropClosing, Book!Next
  <2>4. CASE PaymentStep
    BY <2>4, SucceededSettles, FailedDeclines DEF PaymentStep, Book!Next
  <2>5. CASE \E k \in Keys : Age(k)
    BY <2>5, AgeUnseen
  <2>6. CASE ReapStep
    BY <2>6, ReapExpires DEF ReapStep, Book!Next
  <2>7. CASE UNCHANGED orderVars
    BY <2>1, <2>7 DEF orderVars
  <2>8. QED
    BY <2>2, <2>3, <2>4, <2>5, <2>6, <2>7 DEF Next, vars
<1>3. QED
  BY <1>1, <1>2, AlwaysTyped, PTL DEF Spec, ImplementsOrderBook, Book!Spec
=============================================================================
