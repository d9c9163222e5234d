------------------------------- MODULE Orders --------------------------------
(***************************************************************************)
(* Checkout and the life of an order: POST /orders, PATCH                  *)
(* /orders/:id/status, the part of the payment webhook that touches the    *)
(* order, and the cron job that cancels stale orders, over the stock and   *)
(* the carts.                                                              *)
(*                                                                         *)
(* A handler is a sequence of SQL statements and other requests run        *)
(* between any two of them, so each statement is an action; only the       *)
(* transaction of place_order is one action of several statements.  Every  *)
(* UPDATE in it is relative to the row it locks until the commit, and its  *)
(* inserts are invisible until then.  A handler may be dropped before any  *)
(* of its statements: its client disconnects, a statement fails, or the    *)
(* server stops.  Nothing resumes it.                                      *)
(***************************************************************************)
EXTENDS Cart, FiniteSets, Functions

CONSTANTS
  Keys,         \* order keys, chosen by the clients
  Buyers,       \* POST /orders requests that may be in flight together
  Closers,      \* PATCH /orders/:id/status requests likewise
  Requested     \* bound: the statuses that farmers ask for

VARIABLES
  orders,     \* order key -> its order row with its items, or None
  placing,    \* buyer  -> the POST /orders it is serving, or None
  closing,    \* closer -> the status change that has yet to release stock
  notified,   \* keys with a notifications row
  announced,  \* keys published on the WebSocket channel
  unreleased  \* history: key -> products whose reservation is not yet taken back

orderVars == <<orders, placing, closing, notified, announced, unreleased>>
vars == <<stockVars, cartVars, orderVars>>

OrderStatuses ==
  {"pending", "confirmed", "processing", "dispatched", "delivered", "cancelled"}

\* What PATCH /orders/:id/status accepts.
Allowed == OrderStatuses \ {"pending"}

ASSUME RequestedAssumption == Requested \subseteq OrderStatuses

\* What there is to sum over.
ASSUME FiniteAssumption == IsFiniteSet(Products) /\ IsFiniteSet(Keys)

\* The statuses that release stock.
Closed == {"delivered", "cancelled"}

\* The column has a fourth value, "refunded", that nothing ever writes.
PaymentStatuses == {"pending", "paid", "failed"}

\* "first" is the product of orders.stock_id; "stale" says that the order was
\* placed more than two hours ago.
Order == [status : OrderStatuses, payment : PaymentStatuses,
          lines : Lines, first : Products, stale : BOOLEAN]

Placing ==
  [pc : {"find_cart"}, key : Keys, session : Sessions]
    \cup [pc : {"read_items"}, key : Keys, cart : CartIds]
    \cup [pc : {"commit", "notify", "publish", "clear"}, key : Keys,
          cart : CartIds, lines : Lines, first : Products]

Closing == [key : Keys, delivered : BOOLEAN]

\* A key without an order cannot be mistaken for one with, nor an idle closer.
ASSUME OrderAssumption == None \notin Order \cup Closing

Placed == {k \in Keys : orders[k] # None}

Bought(items) == {p \in Products : items[p] > 0}

\* SUM(quantity) over all the items of an order.
TotalQuantity(items) == SumFunction(items)

InitOrders ==
  /\ orders = [k \in Keys |-> None]
  /\ placing = [b \in Buyers |-> None]
  /\ closing = [c \in Closers |-> None]
  /\ notified = {}
  /\ announced = {}
  /\ unreleased = [k \in Keys |-> {}]

Init == InitStock /\ InitCart /\ InitOrders

-----------------------------------------------------------------------------
(***************************************************************************)
(* POST /orders                                                            *)
(***************************************************************************)

\* Leave place_order, with whatever response.
Return(b) == placing' = [placing EXCEPT ![b] = None]

\* The SELECT by order_key: a known key is answered at once and changes
\* nothing, so only the other case is a step.
BeginPlace(b, k, s) ==
  /\ placing[b] = None
  /\ orders[k] = None
  /\ placing' = [placing EXCEPT ![b] = [pc |-> "find_cart", key |-> k, session |-> s]]
  /\ UNCHANGED <<stockVars, cartVars, orders, closing, notified, announced, unreleased>>

FindCart(b) ==
  /\ placing[b] # None
  /\ placing[b].pc = "find_cart"
  /\ LET id == cartOf[placing[b].session]
     IN  IF id = None
           THEN Return(b)
           ELSE placing' = [placing EXCEPT ![b] =
                  [pc |-> "read_items", key |-> placing[b].key, cart |-> id]]
  /\ UNCHANGED <<stockVars, cartVars, orders, closing, notified, announced, unreleased>>

\* Mutant of Covered: something of each product is left.
AnyLeft(items) == \A p \in Bought(items) : Free(stock[p]) > 0

\* The stock check on the items that the SELECT returned.
Covered(items) == \A p \in Bought(items) : items[p] <= Free(stock[p])

\* One SELECT reads the items and the free quantity of each; an empty cart or
\* a line that is not covered ends the request.  The rows come in no order, so
\* any of them may be the first.
ReadItems(b) ==
  /\ placing[b] # None
  /\ placing[b].pc = "read_items"
  /\ LET items == lines[placing[b].cart]
     IN  IF Bought(items) # {} /\ Covered(items)
           THEN \E first \in Bought(items) :
                  placing' = [placing EXCEPT ![b] =
                    [pc |-> "commit", key |-> placing[b].key, cart |-> placing[b].cart,
                     lines |-> items, first |-> first]]
           ELSE Return(b)
  /\ UNCHANGED <<stockVars, cartVars, orders, closing, notified, announced, unreleased>>

\* The transaction: the order, its items and the reservations ...
StoreOrder(b) ==
  LET r == placing[b]
  IN  /\ orders' = [orders EXCEPT ![r.key] =
           [status |-> "pending", payment |-> "pending",
            lines |-> r.lines, first |-> r.first, stale |-> FALSE]]
      /\ stock' = [p \in Products |->
           IF p \in Bought(r.lines) THEN ReserveRow(stock[p], r.lines[p]) ELSE stock[p]]
      /\ unreleased' = [unreleased EXCEPT ![r.key] = Bought(r.lines)]
      /\ placing' = [placing EXCEPT ![b].pc = "notify"]

\* Mutant of CommitOrder: order_key is not UNIQUE.
CommitAnyway(b) ==
  /\ placing[b] # None
  /\ placing[b].pc = "commit"
  /\ StoreOrder(b)
  /\ UNCHANGED <<active, edit, cartVars, closing, notified, announced>>

\* ... or nothing, if the key has been taken since (UNIQUE order_key).
CommitOrder(b) ==
  /\ placing[b] # None
  /\ placing[b].pc = "commit"
  /\ \/ orders[placing[b].key] = None /\ StoreOrder(b)
     \/ /\ orders[placing[b].key] # None
        /\ Return(b)
        /\ UNCHANGED <<stock, orders, unreleased>>
  /\ UNCHANGED <<active, edit, cartVars, closing, notified, announced>>

\* Mutant of StoreNotification: its failure is ignored.
SkipNotification(b) ==
  /\ placing[b] # None
  /\ placing[b].pc = "notify"
  /\ placing' = [placing EXCEPT ![b].pc = "publish"]
  /\ UNCHANGED <<stockVars, cartVars, orders, closing, notified, announced, unreleased>>

\* After the commit: the notifications row, ...
StoreNotification(b) ==
  /\ placing[b] # None
  /\ placing[b].pc = "notify"
  /\ notified' = notified \cup {placing[b].key}
  /\ placing' = [placing EXCEPT ![b].pc = "publish"]
  /\ UNCHANGED <<stockVars, cartVars, orders, closing, announced, unreleased>>

\* ... the WebSocket event, ...
PublishEvent(b) ==
  /\ placing[b] # None
  /\ placing[b].pc = "publish"
  /\ announced' = announced \cup {placing[b].key}
  /\ placing' = [placing EXCEPT ![b].pc = "clear"]
  /\ UNCHANGED <<stockVars, cartVars, orders, closing, notified, unreleased>>

\* ... and the DELETE of the cart by its id.
ClearOrderedCart(b) ==
  /\ placing[b] # None
  /\ placing[b].pc = "clear"
  /\ DeleteCart(placing[b].cart)
  /\ Return(b)
  /\ UNCHANGED <<stockVars, shopping, orders, closing, notified, announced, unreleased>>

DropPlacing(b) ==
  /\ placing[b] # None
  /\ Return(b)
  /\ UNCHANGED <<stockVars, cartVars, orders, closing, notified, announced, unreleased>>

-----------------------------------------------------------------------------
(***************************************************************************)
(* PATCH /orders/:id/status, by the farmer of the first product.           *)
(***************************************************************************)

\* The UPDATE of the order, whatever its status was ...
SetStatus(c, k, status) ==
  /\ closing[c] = None
  /\ orders[k] # None
  /\ status \in Allowed
  /\ orders' = [orders EXCEPT ![k].status = status]
  /\ closing' = IF status \in Closed
                  THEN [closing EXCEPT ![c] =
                         [key |-> k, delivered |-> status = "delivered"]]
                  ELSE closing
  /\ UNCHANGED <<stockVars, cartVars, placing, notified, announced, unreleased>>

\* Mutant of Released: the stock row of orders.stock_id only.
FirstOnly(order) == {order.first}

\* The products whose stock rows the second statement joins to the order.
Released(order) == Bought(order.lines)

\* ... and that statement, which fails as a whole if a row would go below zero.
ReleaseStock(c) ==
  /\ closing[c] # None
  /\ LET items     == orders[closing[c].key].lines
         delivered == closing[c].delivered
         released  == Released(orders[closing[c].key])
     IN  IF \A p \in released : ReleaseAllowed(stock[p], items[p], delivered)
           THEN /\ stock' = [p \in Products |->
                     IF p \in released
                       THEN ReleaseRow(stock[p], items[p], delivered)
                       ELSE stock[p]]
                /\ unreleased' = [unreleased EXCEPT ![closing[c].key] = {}]
           ELSE UNCHANGED <<stock, unreleased>>
  /\ closing' = [closing EXCEPT ![c] = None]
  /\ UNCHANGED <<active, edit, cartVars, orders, placing, notified, announced>>

DropClosing(c) ==
  /\ closing[c] # None
  /\ closing' = [closing EXCEPT ![c] = None]
  /\ UNCHANGED <<stockVars, cartVars, orders, placing, notified, announced, unreleased>>

-----------------------------------------------------------------------------
(***************************************************************************)
(* The payment webhook's statements, here without the payment reference    *)
(* they also match on.                                                     *)
(***************************************************************************)

PaymentSucceeded(k) ==
  /\ orders[k] # None
  /\ orders[k].payment = "pending"
  /\ orders' = [orders EXCEPT ![k].payment = "paid", ![k].status = "confirmed"]
  /\ UNCHANGED <<stockVars, cartVars, placing, closing, notified, announced, unreleased>>

PaymentFailed(k) ==
  /\ orders[k] # None
  /\ orders' = [orders EXCEPT ![k].payment = "failed"]
  /\ UNCHANGED <<stockVars, cartVars, placing, closing, notified, announced, unreleased>>

-----------------------------------------------------------------------------
(***************************************************************************)
(* The cron job stale_pending_orders.                                      *)
(***************************************************************************)

\* Two hours pass.
Age(k) ==
  /\ orders[k] # None
  /\ ~orders[k].stale
  /\ orders' = [orders EXCEPT ![k].stale = TRUE]
  /\ UNCHANGED <<stockVars, cartVars, placing, closing, notified, announced, unreleased>>

Reapable(k) ==
  /\ orders[k] # None
  /\ orders[k].status = "pending"
  /\ orders[k].payment = "pending"
  /\ orders[k].stale

\* Mutant of Cancelled: the stock is returned, the order stays.
LeftPending(order) == order

Cancelled(order) == [order EXCEPT !.status = "cancelled"]

\* One run cancels a batch of stale orders: those whose row was not locked.
\* The UPDATE of stock joins each row to the cancelled orders whose *first*
\* product it is; when there are several, PostgreSQL applies one of them.  The
\* quantity taken back is that of all the items of that order.
ReapBatch(batch) ==
  /\ batch # {}
  /\ \A k \in batch : Reapable(k)
  /\ orders' = [k \in Keys |->
       IF k \in batch THEN Cancelled(orders[k]) ELSE orders[k]]
  /\ \E joined \in [{orders[k].first : k \in batch} -> batch] :
       /\ \A p \in DOMAIN joined : orders[joined[p]].first = p
       /\ stock' = [p \in Products |->
            IF p \in DOMAIN joined
              THEN ReapRow(stock[p], TotalQuantity(orders[joined[p]].lines))
              ELSE stock[p]]
       /\ unreleased' = [k \in Keys |->
            unreleased[k] \ {p \in DOMAIN joined : joined[p] = k}]
  /\ UNCHANGED <<active, edit, cartVars, placing, closing, notified, announced>>

-----------------------------------------------------------------------------
PlaceStep ==
  \E b \in Buyers :
    \/ \E k \in Keys, s \in Sessions : BeginPlace(b, k, s)
    \/ FindCart(b)
    \/ ReadItems(b)
    \/ CommitOrder(b)
    \/ StoreNotification(b)
    \/ PublishEvent(b)
    \/ ClearOrderedCart(b)
    \/ DropPlacing(b)

CloseStep ==
  \E c \in Closers :
    \/ \E k \in Keys, status \in Requested : SetStatus(c, k, status)
    \/ ReleaseStock(c)
    \/ DropClosing(c)

PaymentStep == \E k \in Keys : PaymentSucceeded(k) \/ PaymentFailed(k)

ReapStep == \E batch \in SUBSET Keys : ReapBatch(batch)

Next ==
  \/ StockStep /\ UNCHANGED <<cartVars, orderVars>>
  \/ CartStep /\ UNCHANGED <<stockVars, orderVars>>
  \/ PlaceStep
  \/ CloseStep
  \/ PaymentStep
  \/ \E k \in Keys : Age(k)
  \/ ReapStep

Spec == Init /\ [][Next]_vars

\* The scheduler keeps running the job, and no order's row stays locked.
ReapFairness ==
  \A k \in Keys : WF_vars(\E batch \in SUBSET Keys : k \in batch /\ ReapBatch(batch))

FairSpec == Spec /\ ReapFairness

-----------------------------------------------------------------------------
(***************************************************************************)
(* Properties                                                              *)
(***************************************************************************)

\* Every table and every handler's local state is well formed; in particular
\* the CHECK constraints of the stock table always hold (TypeOK).
OrdersTypeOK ==
  /\ orders \in [Keys -> Order \cup {None}]
  /\ placing \in [Buyers -> Placing \cup {None}]
  /\ closing \in [Closers -> Closing \cup {None}]
  /\ notified \subseteq Keys
  /\ announced \subseteq Keys
  /\ unreleased \in [Keys -> SUBSET Products]

TypeOK == StockTypeOK /\ CartTypeOK /\ OrdersTypeOK

PastCommit(b) == placing[b] # None /\ placing[b].pc \in {"notify", "publish", "clear"}

\* Of all the requests that carry one order key, at most one gets past the
\* transaction, and what it tells and clears afterwards is the order that is
\* stored: the order that a notification or an event names has those items.
OneWinnerPerKey ==
  /\ \A b, d \in Buyers :
       PastCommit(b) /\ PastCommit(d) /\ placing[b].key = placing[d].key => b = d
  /\ \A b \in Buyers : PastCommit(b) =>
       /\ placing[b].key \in Placed
       /\ orders[placing[b].key].lines = placing[b].lines

\* No farmer is told of an order that is not stored, and none sees an event
\* without its notification row, wherever the handler was dropped.
ToldOnlyOfStored ==
  /\ notified \subseteq Placed
  /\ announced \subseteq notified

\* A product's reservation is backed by orders: it never exceeds what the
\* orders whose reservation has not been taken back ask of it, however often
\* they are placed again, closed again or reaped.
ReservationsBacked ==
  \A p \in Products :
    stock[p].reserved <=
      SumFunctionOnSet([k \in Keys |-> IF p \in unreleased[k] THEN orders[k].lines[p] ELSE 0],
                       Keys)

\* As long as nobody edits stock, a status that promises more than the free
\* quantity is that of a product nobody has ordered: the first checkout puts it
\* right, and no checkout, closing or cron job makes it promise too much again.
OrderedAreHonest ==
  \A p \in Products :
    \/ NeverOptimistic(stock[p])
    \/ \A k \in Placed : p \notin Bought(orders[k].lines)

\* The orders table as its readers see it.
Seen(row) ==
  IF row = None THEN None
  ELSE [status |-> row.status, payment |-> row.payment, contents |-> <<row.lines, row.first>>]

Entries == [k \in Keys |-> Seen(orders[k])]

Book == INSTANCE OrderBook WITH Contents <- Lines \X Products, book <- Entries

ASSUME EntryAssumption == None \notin Book!Entry

\* Checkout, status changes, webhook and cron job together keep the promise of
\* the orders table.
ImplementsOrderBook == Book!Spec

\* What is sold can be delivered: reservations never exceed what is available.
NoOversell == \A p \in Products : Free(stock[p]) >= 0

\* Orders whose reservation is due: those that are not closed, and those that
\* a status change has closed and is about to release.
Due(k) ==
  /\ orders[k] # None
  /\ \/ orders[k].status \notin Closed
     \/ \E c \in Closers : closing[c] # None /\ closing[c].key = k

\* What the orders that are due ask of a product.
Outstanding(p) == [k \in Keys |-> IF Due(k) THEN orders[k].lines[p] ELSE 0]

Balanced(p) == stock[p].reserved = SumFunctionOnSet(Outstanding(p), Keys)

\* The reserved quantity is exactly what the orders that are due ask for: none
\* is lost and none is left behind.
LedgerExact == \A p \in Products : Balanced(p)

\* The release of a closed order comes to nothing: its request is dropped, or a
\* row would go below zero.
LosesRelease ==
  \E c \in Closers : closing[c] # None /\ closing'[c] = None /\ UNCHANGED stock

\* The release of an order that is due again: reopened, paid or closed once more
\* since the request that releases it closed it.
ReleasesDue ==
  \E c \in Closers, k \in Placed :
    closing[c] # None /\ closing[c].key = k /\ closing'[c] = None /\ Due(k)'

\* An order that has no reservation any more is reopened, paid or closed again.
RevivesOrder == \E k \in Placed : ~Due(k) /\ Due(k)'

\* Orders of one line each, no two of them for the same product: what the job's
\* UPDATE of stock is right about.
OneLineEach(batch) ==
  /\ \A k \in batch : Bought(orders[k].lines) = {orders[k].first}
  /\ \A j, k \in batch : orders[j].first = orders[k].first => j = k

ReapsWrongly == \E batch \in SUBSET Keys : ReapBatch(batch) /\ ~OneLineEach(batch)

\* Nothing else puts a product's reservation out: not a checkout, however many
\* run at once and wherever they are dropped, no edit of stock, no payment of an
\* open order, and no status change that runs to its end.
LedgerSlips ==
  [][\/ \A p \in Products : Balanced(p) => Balanced(p)'
     \/ LosesRelease \/ ReleasesDue \/ RevivesOrder \/ ReapsWrongly]_vars

\* More of a product is sold than there is only when a checkout commits that
\* another request has overtaken since its look at the stock, or when an edit of
\* that product is written: never by closing orders, in whatever order and
\* however often they are delivered, cancelled or reopened, and never by the job.
OversellCauses ==
  [][\A p \in Products :
       \/ Free(stock[p]) >= 0 => Free(stock'[p]) >= 0
       \/ \E b \in Buyers : CommitOrder(b) /\ placing[b].lines[p] > Free(stock[p])
       \/ \E e \in Editors : FinishEdit(e) /\ edit[e].product = p]_vars

\* The status an edit will write is right for a time at which r was reserved.
DecidedFor(e, r) ==
  edit[e].status = StatusOf(edit[e].available - r * Grain, edit[e].threshold)

\* An edit that is written with a number the column rounds.
Rounds(e) == Coarsened(edit[e].available) \/ Coarsened(edit[e].threshold)

\* A row begins to promise too much only by an edit, and only by one that decided
\* on its status when less of the product was reserved, or on numbers finer than
\* the columns.
EditsMislead ==
  [][\A p \in Products :
       \/ NeverOptimistic(stock[p]) => NeverOptimistic(stock'[p])
       \/ \E e \in Editors :
            /\ FinishEdit(e)
            /\ edit[e].product = p
            /\ \E r \in 0..stock[p].reserved :
                 DecidedFor(e, r) /\ (r < stock[p].reserved \/ Rounds(e))]_vars

\* An order that is closed has given its reservation back, all of it, unless a
\* status change is just about to.
ClosedReleased ==
  \A k \in Placed :
    /\ orders[k].status \in Closed
    /\ \A c \in Closers : closing[c] = None \/ closing[c].key # k
    => unreleased[k] = {}

\* A ghost order does not stay: unpaid two hours after it was placed, it is
\* cancelled, unless a payment or a farmer gets to it first.
StaleOrdersEnd == \A k \in Keys : Reapable(k) ~> ~Reapable(k)
=============================================================================
