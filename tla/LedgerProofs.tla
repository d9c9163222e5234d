---------------------------- MODULE LedgerProofs -----------------------------
(***************************************************************************)
(* The stock ledger for every set of products, orders and requests: the    *)
(* rows stay within their constraints, reservations are backed by orders,  *)
(* and each way of overselling, of promising too much and of losing or     *)
(* keeping a reservation is named.  In the disciplined shop of MCOrders    *)
(* with one checkout at a time the ledger is exact, nothing is oversold,   *)
(* and the shop implements StockBook.                                      *)
(***************************************************************************)
EXTENDS MCOrders, OrdersProofs, SumProofs

-----------------------------------------------------------------------------
(***************************************************************************)
(* Rows.                                                                   *)
(***************************************************************************)

LEMMA StatusKnown ==
  ASSUME NEW free \in Int, NEW threshold \in Int
  PROVE  StatusOf(free, threshold) \in Statuses
  BY DEF StatusOf, Statuses

\* More free stock never means a lower status.
LEMMA StatusGrows ==
  ASSUME NEW free \in Int, NEW more \in Int, free <= more, NEW threshold \in Int
  PROVE  Rank(StatusOf(free, threshold)) <= Rank(StatusOf(more, threshold))
  BY DEF StatusOf, Rank

LEMMA RecomputedRow ==
  ASSUME NEW row \in StockRow
  PROVE  /\ Recomputed(row) \in StockRow
         /\ Recomputed(row).available = row.available
         /\ Recomputed(row).reserved = row.reserved
         /\ Recomputed(row).threshold = row.threshold
         /\ Recomputed(row).status = StatusOf(row.available - row.reserved, row.threshold)
<1>1. row.available - row.reserved \in Int /\ row.threshold \in Int
  BY DEF StockRow
<1>2. StatusOf(row.available - row.reserved, row.threshold) \in Statuses
  BY <1>1, StatusKnown
<1>3. QED
  BY <1>2 DEF Recomputed, Free, StockRow

LEMMA HonestMeans ==
  ASSUME NEW row \in StockRow
  PROVE  NeverOptimistic(row) <=>
           Rank(row.status) <= Rank(StatusOf(row.available - row.reserved, row.threshold))
  BY RecomputedRow DEF NeverOptimistic

LEMMA RecomputedHonest ==
  ASSUME NEW row \in StockRow
  PROVE  NeverOptimistic(Recomputed(row))
<1>1. StatusOf(row.available - row.reserved, row.threshold) \in Statuses
  BY StatusKnown DEF StockRow
<1>2. Rank(StatusOf(row.available - row.reserved, row.threshold)) \in Int
  BY <1>1 DEF Statuses, Rank
<1>3. QED
  BY <1>2, RecomputedRow, HonestMeans

LEMMA ReserveRowFacts ==
  ASSUME NEW row \in StockRow, NEW q \in Nat
  PROVE  /\ ReserveRow(row, q) \in StockRow
         /\ ReserveRow(row, q).available = row.available
         /\ ReserveRow(row, q).reserved = row.reserved + q
         /\ NeverOptimistic(ReserveRow(row, q))
<1> DEFINE moved == [row EXCEPT !.reserved = @ + q]
<1>1. moved \in StockRow /\ moved.available = row.available /\ moved.reserved = row.reserved + q
  BY DEF StockRow
<1>2. ReserveRow(row, q) = Recomputed(moved)
  BY DEF ReserveRow
<1> HIDE DEF moved
<1>3. QED
  BY <1>1, <1>2, RecomputedRow, RecomputedHonest

LEMMA ClampedFacts ==
  ASSUME NEW r \in Nat, NEW q \in Nat
  PROVE  /\ Greatest0(r - q) \in Nat
         /\ Greatest0(r - q) <= r
         /\ q <= r => Greatest0(r - q) = r - q
         /\ \A m, n \in Nat : r <= m /\ n >= m - q => Greatest0(r - q) <= n
  BY DEF Greatest0

LEMMA ReleaseRowFacts ==
  ASSUME NEW row \in StockRow, NEW q \in Nat, NEW delivered \in BOOLEAN,
         ReleaseAllowed(row, q, delivered)
  PROVE  /\ ReleaseRow(row, q, delivered) \in StockRow
         /\ ReleaseRow(row, q, delivered).available =
              IF delivered THEN row.available - q ELSE row.available
         /\ ReleaseRow(row, q, delivered).reserved = Greatest0(row.reserved - q)
         /\ NeverOptimistic(ReleaseRow(row, q, delivered))
<1> DEFINE left == Greatest0(row.reserved - q)
           rest == IF delivered THEN row.available - q ELSE row.available
           moved == [row EXCEPT !.reserved = left, !.available = rest]
<1>1. left \in Nat /\ rest \in Nat
  <2>1. left \in Nat
    BY ClampedFacts DEF StockRow
  <2>2. rest \in Nat
    BY DEF ReleaseAllowed, StockRow
  <2>3. QED
    BY <2>1, <2>2
<1>2. ReleaseRow(row, q, delivered) = Recomputed(moved)
  BY DEF ReleaseRow, StockRow
<1> HIDE DEF left, rest
<1>3. moved \in StockRow /\ moved.available = rest /\ moved.reserved = left
  BY <1>1 DEF StockRow
<1> HIDE DEF moved
<1>4. /\ ReleaseRow(row, q, delivered) \in StockRow
      /\ ReleaseRow(row, q, delivered).available = rest
      /\ ReleaseRow(row, q, delivered).reserved = left
      /\ NeverOptimistic(ReleaseRow(row, q, delivered))
  BY <1>2, <1>3, RecomputedRow, RecomputedHonest
<1>5. QED
  BY <1>4 DEF left, rest

LEMMA ReapRowFacts ==
  ASSUME NEW row \in StockRow, NEW q \in Nat
  PROVE  /\ ReapRow(row, q) \in StockRow
         /\ ReapRow(row, q).available = row.available
         /\ ReapRow(row, q).reserved = Greatest0(row.reserved - q)
         /\ NeverOptimistic(row) => NeverOptimistic(ReapRow(row, q))
<1> DEFINE left == Greatest0(row.reserved - q)
           moved == [row EXCEPT !.reserved = left]
<1>1. left \in Nat /\ left <= row.reserved
  BY ClampedFacts DEF StockRow
<1>2. ReapRow(row, q) = moved
  BY DEF ReapRow
<1> HIDE DEF left
<1>3. /\ moved \in StockRow /\ moved.available = row.available /\ moved.reserved = left
      /\ moved.status = row.status /\ moved.threshold = row.threshold
  BY <1>1 DEF StockRow
<1> HIDE DEF moved
<1>4. Rank(StatusOf(row.available - row.reserved, row.threshold))
        <= Rank(StatusOf(row.available - left, row.threshold))
  BY <1>1, StatusGrows DEF StockRow
<1>5. \A s \in Statuses : Rank(s) \in Int
  BY DEF Statuses, Rank
<1>6. /\ row.status \in Statuses
      /\ StatusOf(row.available - row.reserved, row.threshold) \in Statuses
      /\ StatusOf(row.available - left, row.threshold) \in Statuses
  BY <1>1, StatusKnown DEF StockRow
<1>7. NeverOptimistic(row) => NeverOptimistic(moved)
  BY <1>3, <1>4, <1>5, <1>6, HonestMeans
<1>8. QED
  BY <1>2, <1>3, <1>7 DEF left

\* A stored number is the nearest one ...
LEMMA StoredNear ==
  ASSUME NEW x \in Int
  PROVE  Stored(x) \in Int /\ Stored(x) * Grain - x <= 5 /\ x - Stored(x) * Grain <= 5
  BY DEF Stored, Grain

\* ... and a stored number is kept as it is.
LEMMA StoredExact ==
  ASSUME NEW x \in Int, ~Coarsened(x)
  PROVE  Stored(x) \in Int /\ Stored(x) * Grain = x
  BY StoredNear DEF Coarsened

LEMMA FirstStatusKnown ==
  ASSUME NEW quantity \in Int, NEW threshold \in Int
  PROVE  FirstStatus(quantity, threshold) \in Statuses
  BY DEF FirstStatus, Statuses

-----------------------------------------------------------------------------
(***************************************************************************)
(* What a step may do to the rows.                                         *)
(***************************************************************************)

\* A checkout that reserves.
Reserves(b) ==
  /\ CommitOrder(b)
  /\ placing[b] # None
  /\ placing[b].pc = "commit"
  /\ orders[placing[b].key] = None
  /\ StoreOrder(b)
  /\ UNCHANGED closing

\* A write of a stock edit.
Edits(e) == FinishEdit(e) /\ UNCHANGED orderVars

LEMMA StockHistory ==
  ASSUME [Next]_vars
  PROVE  \/ \E b \in Buyers : Reserves(b)
         \/ \E c \in Closers : ReleaseStock(c)
         \/ \E batch \in SUBSET Keys : ReapBatch(batch)
         \/ \E e \in Editors : Edits(e)
         \/ UNCHANGED <<stock, unreleased>>
<1>1. CASE StockStep /\ UNCHANGED <<cartVars, orderVars>>
  BY <1>1 DEF StockStep, EditStep, BeginEdit, DropEdit, DeleteProduct, Edits, orderVars
<1>2. CASE CartStep /\ UNCHANGED <<stockVars, orderVars>>
  BY <1>2 DEF stockVars, orderVars
<1>3. CASE PlaceStep
  <2>1. ASSUME NEW b \in Buyers, CommitOrder(b)
        PROVE  Reserves(b) \/ UNCHANGED <<stock, unreleased>>
    BY <2>1 DEF CommitOrder, Reserves
  <2>2. QED
    BY <1>3, <2>1 DEF PlaceStep, BeginPlace, FindCart, ReadItems, StoreNotification, PublishEvent,
                      ClearOrderedCart, DropPlacing, stockVars
<1>4. CASE CloseStep
  BY <1>4 DEF CloseStep, SetStatus, DropClosing, stockVars
<1>5. CASE PaymentStep
  BY <1>5 DEF PaymentStep, PaymentSucceeded, PaymentFailed, stockVars
<1>6. CASE \E k \in Keys : Age(k)
  BY <1>6 DEF Age, stockVars
<1>7. CASE ReapStep
  BY <1>7 DEF ReapStep
<1>8. CASE UNCHANGED vars
  BY <1>8 DEF vars, stockVars, orderVars
<1>9. QED
  BY <1>1, <1>2, <1>3, <1>4, <1>5, <1>6, <1>7, <1>8 DEF Next

\* The transaction's rows ...
LEMMA ReserveFacts ==
  ASSUME Typed, StockTypeOK, NEW b \in Buyers, Reserves(b), NEW p \in Products
  PROVE  /\ placing[b].lines[p] \in Nat
         /\ stock'[p] \in StockRow
         /\ stock'[p].available = stock[p].available
         /\ stock'[p].reserved = stock[p].reserved + placing[b].lines[p]
         /\ NeverOptimistic(stock[p]) => NeverOptimistic(stock'[p])
         /\ p \in Bought(placing[b].lines) => NeverOptimistic(stock'[p])
<1>1. placing[b].lines \in Lines
  BY PlacingShape DEF Reserves, Typed
<1>2. placing[b].lines[p] \in Nat /\ stock[p] \in StockRow
  BY <1>1 DEF Lines, StockTypeOK
<1>3. CASE p \in Bought(placing[b].lines)
  <2>1. stock'[p] = ReserveRow(stock[p], placing[b].lines[p])
    BY <1>3 DEF Reserves, StoreOrder
  <2>2. QED
    BY <1>2, <2>1, ReserveRowFacts
<1>4. CASE p \notin Bought(placing[b].lines)
  <2>1. stock'[p] = stock[p]
    BY <1>4 DEF Reserves, StoreOrder
  <2>2. placing[b].lines[p] = 0
    BY <1>2, <1>4 DEF Bought
  <2>3. stock[p].reserved + 0 = stock[p].reserved
    BY <1>2 DEF StockRow
  <2>4. QED
    BY <1>2, <1>4, <2>1, <2>2, <2>3
<1>5. QED
  BY <1>3, <1>4

\* ... those of a status change that releases ...
Releasable(c) ==
  \A p \in Released(orders[closing[c].key]) :
    ReleaseAllowed(stock[p], orders[closing[c].key].lines[p], closing[c].delivered)

LEMMA ClosingShape ==
  ASSUME OrdersTypeOK, NEW c \in Closers, closing[c] # None
  PROVE  closing[c].key \in Keys /\ closing[c].delivered \in BOOLEAN
  BY DEF OrdersTypeOK, Closing

LEMMA ReleaseFacts ==
  ASSUME Typed, StockTypeOK, NEW c \in Closers, ReleaseStock(c), Releasable(c),
         orders[closing[c].key] # None, NEW p \in Products
  PROVE  /\ orders[closing[c].key].lines[p] \in Nat
         /\ unreleased' = [unreleased EXCEPT ![closing[c].key] = {}]
         /\ stock'[p] \in StockRow
         /\ stock'[p].reserved = Greatest0(stock[p].reserved - orders[closing[c].key].lines[p])
         /\ stock'[p].available =
              IF closing[c].delivered THEN stock[p].available - orders[closing[c].key].lines[p]
                                      ELSE stock[p].available
         /\ NeverOptimistic(stock[p]) => NeverOptimistic(stock'[p])
<1> DEFINE order == orders[closing[c].key]
           delivered == closing[c].delivered
<1>1. closing[c].key \in Keys /\ delivered \in BOOLEAN
  BY ClosingShape DEF ReleaseStock, Typed
<1>2. order \in Order
  BY <1>1 DEF Typed, OrdersTypeOK
<1>3. order.lines[p] \in Nat /\ stock[p] \in StockRow
  BY <1>2 DEF Order, Lines, StockTypeOK
<1>4. /\ stock' = [q \in Products |->
           IF q \in Released(order) THEN ReleaseRow(stock[q], order.lines[q], delivered) ELSE stock[q]]
      /\ unreleased' = [unreleased EXCEPT ![closing[c].key] = {}]
  BY DEF ReleaseStock, Releasable
<1>5. CASE p \in Released(order)
  <2>1. ReleaseAllowed(stock[p], order.lines[p], delivered)
    BY <1>5 DEF Releasable
  <2>2. stock'[p] = ReleaseRow(stock[p], order.lines[p], delivered)
    BY <1>4, <1>5
  <2> HIDE DEF order, delivered
  <2>3. /\ stock'[p] \in StockRow
        /\ stock'[p].reserved = Greatest0(stock[p].reserved - order.lines[p])
        /\ stock'[p].available =
             IF delivered THEN stock[p].available - order.lines[p] ELSE stock[p].available
        /\ NeverOptimistic(stock'[p])
    BY <1>1, <1>3, <2>1, <2>2, ReleaseRowFacts
  <2>4. QED
    BY <1>3, <1>4, <2>3 DEF order, delivered
<1>6. CASE p \notin Released(order)
  <2>1. stock'[p] = stock[p]
    BY <1>4, <1>6
  <2>2. order.lines[p] = 0
    BY <1>3, <1>6 DEF Released, Bought
  <2>3. /\ Greatest0(stock[p].reserved - 0) = stock[p].reserved
        /\ stock[p].available - 0 = stock[p].available
    BY <1>3 DEF Greatest0, StockRow
  <2>4. QED
    BY <1>3, <1>4, <2>1, <2>2, <2>3
<1>7. QED
  BY <1>5, <1>6

LEMMA NotReleased ==
  ASSUME NEW c \in Closers, ReleaseStock(c), ~Releasable(c)
  PROVE  UNCHANGED <<stock, unreleased>>
  BY DEF ReleaseStock, Releasable

\* ... and those of the job, which takes back the sum of an order's lines.
LEMMA TotalQuantityFacts ==
  ASSUME NEW items \in Lines
  PROVE  /\ TotalQuantity(items) \in Nat
         /\ \A p \in Products : items[p] <= TotalQuantity(items)
<1>1. DOMAIN items = Products /\ \A p \in Products : items[p] \in Nat
  BY DEF Lines
<1>2. TotalQuantity(items) = Sum(items, Products)
  BY <1>1 DEF TotalQuantity, SumFunction, Sum
<1>3. QED
  BY <1>1, <1>2, FiniteAssumption, SumNat

\* The order whose quantity is taken from a row, for each row of the batch.
Reaps(batch, joined) ==
  /\ joined \in [{orders[k].first : k \in batch} -> batch]
  /\ \A p \in DOMAIN joined : orders[joined[p]].first = p
  /\ stock' = [p \in Products |->
       IF p \in DOMAIN joined
         THEN ReapRow(stock[p], TotalQuantity(orders[joined[p]].lines))
         ELSE stock[p]]
  /\ unreleased' = [k \in Keys |-> unreleased[k] \ {p \in DOMAIN joined : joined[p] = k}]

LEMMA ReapsSomehow ==
  ASSUME NEW batch \in SUBSET Keys, ReapBatch(batch)
  PROVE  \E joined : Reaps(batch, joined)
  BY DEF ReapBatch, Reaps

LEMMA ReapFacts ==
  ASSUME Typed, StockTypeOK, NEW batch \in SUBSET Keys, ReapBatch(batch),
         NEW joined, Reaps(batch, joined), NEW p \in Products
  PROVE  /\ stock'[p] \in StockRow
         /\ stock'[p].available = stock[p].available
         /\ p \in DOMAIN joined =>
              /\ joined[p] \in Keys
              /\ orders[joined[p]] # None
              /\ stock'[p].reserved =
                   Greatest0(stock[p].reserved - TotalQuantity(orders[joined[p]].lines))
         /\ p \notin DOMAIN joined => stock'[p] = stock[p]
         /\ NeverOptimistic(stock[p]) => NeverOptimistic(stock'[p])
<1>1. stock[p] \in StockRow
  BY DEF StockTypeOK
<1>2. CASE p \in DOMAIN joined
  <2>1. joined[p] \in batch
    BY <1>2 DEF Reaps
  <2>2. orders[joined[p]] # None /\ joined[p] \in Keys
    BY <2>1 DEF ReapBatch, Reapable
  <2>3. orders[joined[p]].lines \in Lines
    BY <2>2 DEF Typed, OrdersTypeOK, Order
  <2>4. stock'[p] = ReapRow(stock[p], TotalQuantity(orders[joined[p]].lines))
    BY <1>2 DEF Reaps
  <2>5. TotalQuantity(orders[joined[p]].lines) \in Nat
    BY <2>3, TotalQuantityFacts
  <2>6. QED
    BY <1>1, <1>2, <2>2, <2>4, <2>5, ReapRowFacts
<1>3. CASE p \notin DOMAIN joined
  <2>1. stock'[p] = stock[p]
    BY <1>3 DEF Reaps
  <2>2. QED
    BY <1>1, <1>3, <2>1
<1>4. QED
  BY <1>2, <1>3

LEMMA EditFacts ==
  ASSUME StockTypeOK, NEW e \in Editors, Edits(e), NEW p \in Products
  PROVE  stock'[p] \in StockRow /\ stock'[p].reserved = stock[p].reserved
<1>1. stock[p] \in StockRow /\ edit[e] \in Edit /\ edit[e].product \in Products
  BY DEF StockTypeOK, Edits, FinishEdit, Edit
<1> DEFINE available == Stored(edit[e].available)
           limit == Stored(edit[e].threshold)
           row == [stock[p] EXCEPT !.available = available,
                                   !.threshold = limit,
                                   !.status    = edit[e].status]
<1>2. stock'[p] = row \/ stock'[p] = stock[p]
  BY DEF StockTypeOK, Edits, FinishEdit
<1>3. available >= 0
  BY DEF Edits, FinishEdit, Storable
<1>4. available \in Int /\ limit \in Int
  BY <1>1, StoredNear DEF Edit
<1> HIDE DEF available, limit
<1>5. available \in Nat /\ edit[e].status \in Statuses
  BY <1>1, <1>3, <1>4 DEF Edit
<1>6. row \in StockRow /\ row.reserved = stock[p].reserved
  BY <1>1, <1>4, <1>5 DEF StockRow
<1> HIDE DEF row
<1>7. QED
  BY <1>1, <1>2, <1>6

-----------------------------------------------------------------------------
(***************************************************************************)
(* The CHECK constraints.                                                  *)
(***************************************************************************)

\* A status change is for an order that is stored.
ClosingPlaced == \A c \in Closers : closing[c] # None => orders[closing[c].key] # None

LEMMA ClosingHistory ==
  ASSUME Typed, [Next]_vars, NEW c \in Closers
  PROVE  \/ closing'[c] = closing[c]
         \/ closing'[c] = None
         \/ \E k \in Keys, status \in Requested :
              /\ SetStatus(c, k, status)
              /\ status \in Closed
              /\ closing'[c] = [key |-> k, delivered |-> status = "delivered"]
<1>1. CASE CloseStep
  <2>1. ASSUME NEW d \in Closers, NEW k \in Keys, NEW status \in Requested, SetStatus(d, k, status)
        PROVE  \/ closing'[c] = closing[c]
               \/ /\ d = c /\ status \in Closed
                  /\ closing'[c] = [key |-> k, delivered |-> status = "delivered"]
    BY <2>1 DEF SetStatus, Typed, OrdersTypeOK
  <2>2. ASSUME NEW d \in Closers, ReleaseStock(d) \/ DropClosing(d)
        PROVE  closing'[c] = closing[c] \/ closing'[c] = None
    BY <2>2 DEF ReleaseStock, DropClosing, Typed, OrdersTypeOK
  <2>3. QED
    BY <1>1, <2>1, <2>2 DEF CloseStep
<1>2. CASE ~CloseStep
  <2>1. UNCHANGED closing
    BY <1>2
       DEF Next, PlaceStep, BeginPlace, FindCart, ReadItems, CommitOrder, StoreNotification,
           PublishEvent, ClearOrderedCart, DropPlacing, PaymentStep, PaymentSucceeded,
           PaymentFailed, Age, ReapStep, ReapBatch, orderVars, vars
  <2>2. QED
    BY <2>1
<1>3. QED
  BY <1>1, <1>2

LEMMA ClosingStaysPlaced ==
  ASSUME Typed, ClosingPlaced, [Next]_vars
  PROVE  ClosingPlaced'
<1> SUFFICES ASSUME NEW c \in Closers, closing'[c] # None PROVE orders'[closing'[c].key] # None
  BY DEF ClosingPlaced
<1>1. CASE closing'[c] = closing[c]
  <2>1. closing[c].key \in Keys /\ orders[closing[c].key] # None
    BY <1>1, ClosingShape DEF ClosingPlaced, Typed
  <2>2. QED
    BY <1>1, <2>1, ItemsKept
<1>2. ASSUME NEW k \in Keys, NEW status \in Requested, SetStatus(c, k, status),
             closing'[c] = [key |-> k, delivered |-> status = "delivered"]
      PROVE  orders'[closing'[c].key] # None
  <2>1. closing'[c].key = k /\ orders[k] # None
    BY <1>2 DEF SetStatus
  <2>2. QED
    BY <2>1, ItemsKept
<1>3. QED
  BY <1>1, <1>2, ClosingHistory

\* Stock edits, pending ones too, are well formed.
LEMMA EditsTyped ==
  ASSUME StockTypeOK, [Next]_vars
  PROVE  active' \subseteq Products /\ edit' \in [Editors -> Edit \cup {None}]
<1>1. ASSUME NEW e \in Editors, NEW p \in Products, NEW q \in Levels \cup {None},
             NEW t \in Thresholds \cup {None}, BeginEdit(e, p, q, t)
      PROVE  active' \subseteq Products /\ edit' \in [Editors -> Edit \cup {None}]
  <2> DEFINE available == Or(q, stock[p].available * Grain)
             limit == Or(t, stock[p].threshold * Grain)
             free == available - stock[p].reserved * Grain
             row == [product |-> p, available |-> available, threshold |-> limit,
                     status |-> StatusOf(free, limit)]
  <2>1. stock[p] \in StockRow
    BY DEF StockTypeOK
  <2>2. available \in Int /\ limit \in Int /\ stock[p].reserved \in Nat
    BY <2>1, LevelsAssumption, ThresholdsAssumption DEF Or, StockRow, Grain
  <2>3. free \in Int
    BY <2>2 DEF Grain
  <2> HIDE DEF available, limit, free
  <2>4. StatusOf(free, limit) \in Statuses
    BY <2>2, <2>3, StatusKnown
  <2>5. row \in Edit
    BY <2>2, <2>4 DEF Edit
  <2>6. edit' = [edit EXCEPT ![e] = row] /\ UNCHANGED active
    BY <1>1 DEF BeginEdit, available, limit, free
  <2> HIDE DEF row
  <2>7. QED
    BY <2>5, <2>6 DEF StockTypeOK
<1>2. ASSUME NEW e \in Editors, FinishEdit(e) \/ DropEdit(e)
      PROVE  active' \subseteq Products /\ edit' \in [Editors -> Edit \cup {None}]
  BY <1>2 DEF FinishEdit, DropEdit, StockTypeOK
<1>3. ASSUME NEW p \in Products, DeleteProduct(p)
      PROVE  active' \subseteq Products /\ edit' \in [Editors -> Edit \cup {None}]
  BY <1>3 DEF DeleteProduct, StockTypeOK
<1>4. CASE UNCHANGED <<active, edit>>
  BY <1>4 DEF StockTypeOK
<1>5. CASE StockStep
  BY <1>1, <1>2, <1>3, <1>5 DEF StockStep, EditStep
<1>6. CASE ~StockStep
  BY <1>4, <1>6
     DEF Next, PlaceStep, BeginPlace, FindCart, ReadItems, CommitOrder, StoreNotification,
         PublishEvent, ClearOrderedCart, DropPlacing, CloseStep, SetStatus, ReleaseStock,
         DropClosing, PaymentStep, PaymentSucceeded, PaymentFailed, Age, ReapStep, ReapBatch,
         stockVars, vars
<1>7. QED
  BY <1>5, <1>6

StockInv == Typed /\ StockTypeOK /\ ClosingPlaced

LEMMA StockStays == StockInv /\ [Next]_vars => StockInv'
<1> SUFFICES ASSUME StockInv, [Next]_vars PROVE StockInv'
  OBVIOUS
<1> USE DEF StockInv
<1>1. Typed' /\ ClosingPlaced'
  BY NextTyped, ClosingStaysPlaced
<1>2. \A p \in Products : stock'[p] \in StockRow
  <2>1. ASSUME NEW c \in Closers, ReleaseStock(c), NEW p \in Products
        PROVE  stock'[p] \in StockRow
    BY <2>1, ReleaseFacts, NotReleased DEF ClosingPlaced, StockTypeOK, ReleaseStock
  <2>2. ASSUME NEW batch \in SUBSET Keys, ReapBatch(batch), NEW p \in Products
        PROVE  stock'[p] \in StockRow
    BY <2>2, ReapsSomehow, ReapFacts
  <2>3. QED
    BY <2>1, <2>2, StockHistory, ReserveFacts, EditFacts DEF StockTypeOK
<1>3. stock' = [p \in Products |-> stock'[p]]
  <2>1. stock = [p \in Products |-> stock[p]]
    BY DEF StockTypeOK
  <2>2. ASSUME NEW e \in Editors, Edits(e) PROVE stock' = [p \in Products |-> stock'[p]]
    BY <2>1, <2>2 DEF Edits, FinishEdit
  <2>3. ASSUME NEW batch \in SUBSET Keys, ReapBatch(batch)
        PROVE  stock' = [p \in Products |-> stock'[p]]
    BY <2>3, ReapsSomehow DEF Reaps
  <2>4. ASSUME NEW c \in Closers, ReleaseStock(c) PROVE stock' = [p \in Products |-> stock'[p]]
    BY <2>1, <2>4 DEF ReleaseStock
  <2>5. QED
    BY <2>1, <2>2, <2>3, <2>4, StockHistory DEF Reserves, StoreOrder
<1>4. stock' \in [Products -> StockRow]
  BY <1>2, <1>3
<1>5. QED
  BY <1>1, <1>4, EditsTyped DEF StockTypeOK

\* The rows that create_product inserts.
LEMMA NewRowFacts ==
  ASSUME NEW q \in Levels, Storable(q), NEW t \in Thresholds
  PROVE  NewRow(q, t) \in StockRow /\ NewRow(q, t).reserved = 0
<1> DEFINE available == Stored(q)
           limit == Stored(t)
           status == FirstStatus(q, t)
<1>1. q \in Int /\ t \in Int
  BY LevelsAssumption, ThresholdsAssumption
<1>2. available \in Int /\ limit \in Int /\ status \in Statuses
  BY <1>1, StoredNear, FirstStatusKnown
<1>3. available >= 0
  BY DEF Storable
<1>4. NewRow(q, t) = [available |-> available, reserved |-> 0,
                      threshold |-> limit, status |-> status]
  BY DEF NewRow
<1> HIDE DEF available, limit, status
<1>5. QED
  BY <1>2, <1>3, <1>4 DEF StockRow

LEMMA InitRows ==
  ASSUME InitStock
  PROVE  /\ StockTypeOK
         /\ \A p \in Products : stock[p].available \in Nat /\ stock[p].reserved = 0
<1>1. ASSUME NEW p \in Products
      PROVE  stock[p] \in StockRow /\ stock[p].reserved = 0
  <2>1. PICK q \in Levels, t \in Thresholds : Storable(q) /\ stock[p] = NewRow(q, t)
    BY DEF InitStock
  <2>2. QED
    BY <2>1, NewRowFacts
<1>2. stock \in [Products -> StockRow]
  BY <1>1 DEF InitStock
<1>3. edit \in [Editors -> Edit \cup {None}] /\ active \subseteq Products
  BY DEF InitStock
<1>4. QED
  BY <1>1, <1>2, <1>3 DEF StockTypeOK, StockRow

LEMMA StockStarts == Init => StockInv
  BY InitTyped, InitRows DEF Init, InitOrders, StockInv, ClosingPlaced

LEMMA AlwaysStockInv == Spec => []StockInv
  BY StockStarts, StockStays, PTL DEF Spec

\* Every table and every handler stays well formed; in particular no statement
\* ever leaves a stock row that its CHECK constraints forbid.
THEOREM TypeCorrect == Spec => []TypeOK
<1>1. StockInv => TypeOK
  BY DEF StockInv, TypeOK, Typed, CartInv
<1>2. QED
  BY <1>1, AlwaysStockInv, PTL

-----------------------------------------------------------------------------
(***************************************************************************)
(* Reservations are backed by orders.                                      *)
(***************************************************************************)

\* What each order still asks of a product, by the history.
Held(p) == [k \in Keys |-> IF p \in unreleased[k] THEN orders[k].lines[p] ELSE 0]

Backed(p) == stock[p].reserved <= Sum(Held(p), Keys)

LEMMA BackedMeans == ReservationsBacked <=> \A p \in Products : Backed(p)
  BY DEF ReservationsBacked, Backed, Held, Sum

UnreleasedPlaced == \A k \in Keys : orders[k] = None => unreleased[k] = {}

LEMMA HeldFacts ==
  ASSUME Typed, UnreleasedPlaced, NEW p \in Products
  PROVE  /\ \A k \in Keys : Held(p)[k] \in Nat
         /\ Sum(Held(p), Keys) \in Nat
         /\ \A k \in Keys : orders[k] # None => orders[k].lines[p] \in Nat
<1>1. \A k \in Keys : orders[k] # None => orders[k].lines[p] \in Nat
  BY DEF Typed, OrdersTypeOK, Order, Lines
<1>2. \A k \in Keys : Held(p)[k] \in Nat
  BY <1>1 DEF Held, UnreleasedPlaced
<1>3. QED
  BY <1>1, <1>2, FiniteAssumption, SumNat

LEMMA HeldFactsNext ==
  ASSUME Typed', UnreleasedPlaced', NEW p \in Products
  PROVE  \A k \in Keys : Held(p)'[k] \in Nat
<1>1. \A k \in Keys : orders'[k] # None => orders'[k].lines[p] \in Nat
  BY DEF Typed, OrdersTypeOK, Order, Lines
<1>2. QED
  BY <1>1 DEF Held, UnreleasedPlaced

LEMMA UnreleasedStaysPlaced ==
  ASSUME Typed, UnreleasedPlaced, ClosingPlaced, [Next]_vars
  PROVE  UnreleasedPlaced'
<1> SUFFICES ASSUME NEW k \in Keys, orders'[k] = None PROVE unreleased'[k] = {}
  BY DEF UnreleasedPlaced
<1>1. orders[k] = None /\ unreleased[k] = {}
  BY ItemsKept DEF UnreleasedPlaced
<1>2. ASSUME NEW b \in Buyers, Reserves(b) PROVE unreleased'[k] = {}
  <2>1. orders'[placing[b].key] # None
    BY <1>2, StoreOrderFacts DEF Reserves, Typed
  <2>2. QED
    BY <1>1, <1>2, <2>1 DEF Reserves, StoreOrder, Typed, OrdersTypeOK
<1>3. ASSUME NEW c \in Closers, ReleaseStock(c) PROVE unreleased'[k] = {}
  BY <1>1, <1>3 DEF ReleaseStock, Typed, OrdersTypeOK
<1>4. ASSUME NEW batch \in SUBSET Keys, ReapBatch(batch) PROVE unreleased'[k] = {}
  <2>1. PICK joined : Reaps(batch, joined)
    BY <1>4, ReapsSomehow
  <2>2. unreleased'[k] = unreleased[k] \ {p \in DOMAIN joined : joined[p] = k}
    BY <2>1 DEF Reaps
  <2>3. QED
    BY <1>1, <2>2
<1>5. QED
  BY <1>1, <1>2, <1>3, <1>4, StockHistory DEF Edits, orderVars

BackedInv == StockInv /\ UnreleasedPlaced /\ \A p \in Products : Backed(p)

\* A new order asks for what it reserves, ...
LEMMA ReservingBacks ==
  ASSUME BackedInv, StockInv', UnreleasedPlaced', NEW b \in Buyers, Reserves(b), NEW p \in Products
  PROVE  Backed(p)'
<1> DEFINE key == placing[b].key
           n == placing[b].lines[p]
           f == Held(p)
           g == Held(p)'
<1>1. /\ stock'[p].reserved = stock[p].reserved + n
      /\ n \in Nat /\ stock[p].reserved \in Nat
  BY ReserveFacts DEF BackedInv, StockInv, StockTypeOK, StockRow
<1>2. key \in Keys /\ orders[key] = None /\ f[key] = 0
  BY PlacingShape DEF Reserves, BackedInv, UnreleasedPlaced, Held, StockInv, Typed
<1>3. g[key] = n
  <2>1. orders'[key].lines = placing[b].lines
    <3>1. orders'[key] = [status |-> "pending", payment |-> "pending",
            lines |-> placing[b].lines, first |-> placing[b].first, stale |-> FALSE]
      BY StoreOrderFacts DEF Reserves, BackedInv, StockInv, Typed
    <3>2. QED
      BY <3>1
  <2>2. unreleased'[key] = Bought(placing[b].lines)
    BY <1>2 DEF Reserves, StoreOrder, BackedInv, StockInv, Typed, OrdersTypeOK
  <2>3. g[key] = IF p \in Bought(placing[b].lines) THEN n ELSE 0
    BY <1>2, <2>1, <2>2 DEF Held
  <2>4. p \in Bought(placing[b].lines) <=> n > 0
    BY DEF Bought
  <2> HIDE DEF n, g
  <2>5. QED
    BY <1>1, <2>3, <2>4
<1>4. ASSUME NEW k \in Keys \ {key} PROVE f[k] = g[k]
  <2>1. orders'[k] = orders[k]
    BY <1>4, StoreOrderFacts DEF Reserves, BackedInv, StockInv, Typed
  <2>2. unreleased'[k] = unreleased[k]
    BY <1>4 DEF Reserves, StoreOrder, BackedInv, StockInv, Typed, OrdersTypeOK
  <2>3. QED
    BY <2>1, <2>2 DEF Held
<1>5. \A k \in Keys : f[k] \in Nat /\ g[k] \in Nat
  BY HeldFacts, HeldFactsNext DEF BackedInv, StockInv
<1>6. Sum(f, Keys) \in Nat /\ stock[p].reserved <= Sum(f, Keys)
  BY HeldFacts DEF BackedInv, StockInv, Backed
<1> HIDE DEF f, g, n, key
<1>7. Sum(g, Keys) = Sum(f, Keys) - f[key] + g[key]
  BY <1>2, <1>4, <1>5, FiniteAssumption, SumChanges
<1>8. stock'[p].reserved <= Sum(g, Keys)
  BY <1>1, <1>2, <1>3, <1>6, <1>7
<1>9. QED
  BY <1>8 DEF Backed, g

\* ... and who stops asking for something has given back at least that much.
LEMMA GivingBackBacks ==
  ASSUME NEW f, NEW g, NEW key \in Keys, NEW r \in Nat, NEW q \in Nat,
         \A k \in Keys : f[k] \in Nat /\ g[k] \in Nat,
         \A k \in Keys \ {key} : f[k] = g[k],
         f[key] <= g[key] + q, r <= Sum(f, Keys)
  PROVE  Greatest0(r - q) <= Sum(g, Keys)
<1>1. Sum(g, Keys) = Sum(f, Keys) - f[key] + g[key]
  BY FiniteAssumption, SumChanges
<1>2. Sum(f, Keys) \in Nat /\ Sum(g, Keys) \in Nat
  BY FiniteAssumption, SumNat
<1>3. f[key] \in Nat /\ g[key] \in Nat
  OBVIOUS
<1>4. Sum(g, Keys) >= Sum(f, Keys) - q
  BY <1>1, <1>2, <1>3
<1>5. QED
  BY <1>2, <1>4, ClampedFacts

LEMMA ReleasingBacks ==
  ASSUME BackedInv, UnreleasedPlaced', Typed', UNCHANGED orders,
         NEW c \in Closers, ReleaseStock(c), NEW p \in Products
  PROVE  Backed(p)'
<1> DEFINE key == closing[c].key
           q == orders[key].lines[p]
           f == Held(p)
           g == Held(p)'
<1>1. CASE ~Releasable(c)
  BY <1>1, NotReleased DEF BackedInv, Backed, Held
<1>2. CASE Releasable(c)
  <2>1. key \in Keys /\ orders[key] # None
    BY ClosingShape DEF ReleaseStock, BackedInv, StockInv, ClosingPlaced, Typed
  <2>2. /\ q \in Nat
        /\ unreleased' = [unreleased EXCEPT ![key] = {}]
        /\ stock'[p].reserved = Greatest0(stock[p].reserved - q)
        /\ stock[p].reserved \in Nat
    BY <1>2, <2>1, ReleaseFacts DEF BackedInv, StockInv, StockTypeOK, StockRow
  <2>3. \A k \in Keys : f[k] \in Nat /\ g[k] \in Nat
    BY HeldFacts, HeldFactsNext DEF BackedInv, StockInv
  <2>4. \A k \in Keys \ {key} : f[k] = g[k]
    BY <2>2 DEF Held, BackedInv, StockInv, Typed, OrdersTypeOK
  <2>5. f[key] = q \/ f[key] = 0
    BY <2>1 DEF Held
  <2>6. stock[p].reserved <= Sum(f, Keys)
    BY DEF BackedInv, Backed
  <2> HIDE DEF f, g, q, key
  <2>7. f[key] <= g[key] + q
    BY <2>1, <2>2, <2>3, <2>5
  <2>8. Greatest0(stock[p].reserved - q) <= Sum(g, Keys)
    BY <2>1, <2>2, <2>3, <2>4, <2>6, <2>7, GivingBackBacks
  <2>9. QED
    BY <2>2, <2>8 DEF Backed, g
<1>3. QED
  BY <1>1, <1>2

\* The job takes back the quantity of a whole order, which is no less than what
\* the order asks of the one product whose row it takes it from.
LEMMA ReapingBacks ==
  ASSUME BackedInv, UnreleasedPlaced', Typed',
         NEW batch \in SUBSET Keys, ReapBatch(batch), NEW p \in Products
  PROVE  Backed(p)'
<1>1. PICK joined : Reaps(batch, joined)
  BY ReapsSomehow
<1> DEFINE f == Held(p)
           g == Held(p)'
<1>2. Rewritten
  BY ReapRewrites DEF BackedInv, StockInv, Typed
<1>3. \A k \in Keys : f[k] \in Nat /\ g[k] \in Nat
  BY HeldFacts, HeldFactsNext DEF BackedInv, StockInv
<1>4. \A k \in Keys : orders[k] # None => orders'[k].lines = orders[k].lines
  BY <1>2 DEF Rewritten
<1>5. \A k \in Keys : unreleased'[k] = unreleased[k] \ {r \in DOMAIN joined : joined[r] = k}
  BY <1>1 DEF Reaps
<1>6. ASSUME NEW k \in Keys, ~(p \in DOMAIN joined /\ joined[p] = k)
      PROVE  f[k] = g[k]
  <2>1. p \in unreleased'[k] <=> p \in unreleased[k]
    BY <1>5, <1>6
  <2>2. p \in unreleased[k] => orders[k] # None
    BY DEF BackedInv, UnreleasedPlaced
  <2>3. QED
    BY <1>4, <2>1, <2>2 DEF Held
<1>7. stock[p].reserved <= Sum(f, Keys) /\ stock[p].reserved \in Nat
  BY DEF BackedInv, Backed, StockInv, StockTypeOK, StockRow
<1>8. CASE p \notin DOMAIN joined
  <2>1. stock'[p] = stock[p]
    BY <1>1, <1>8, ReapFacts DEF BackedInv, StockInv
  <2>2. \A k \in Keys : f[k] \in Int /\ f[k] = g[k]
    BY <1>3, <1>6, <1>8
  <2> HIDE DEF f, g
  <2>3. Sum(f, Keys) = Sum(g, Keys)
    BY <2>2, FiniteAssumption, SumSame
  <2>4. stock'[p].reserved <= Sum(g, Keys)
    BY <1>7, <2>1, <2>3
  <2>5. QED
    BY <2>4 DEF Backed, g
<1>9. CASE p \in DOMAIN joined
  <2> DEFINE key == joined[p]
             q == TotalQuantity(orders[key].lines)
  <2>1. /\ key \in Keys /\ orders[key] # None
        /\ stock'[p].reserved = Greatest0(stock[p].reserved - q)
    BY <1>1, <1>9, ReapFacts DEF BackedInv, StockInv
  <2>2. orders[key].lines \in Lines
    BY <2>1 DEF BackedInv, StockInv, Typed, OrdersTypeOK, Order
  <2>3. q \in Nat /\ orders[key].lines[p] <= q
    BY <2>2, TotalQuantityFacts
  <2>4. \A k \in Keys \ {key} : f[k] = g[k]
    BY <1>6
  <2>5. f[key] = orders[key].lines[p] \/ f[key] = 0
    BY <2>1 DEF Held
  <2>6. orders[key].lines[p] \in Nat
    BY <2>2 DEF Lines
  <2> HIDE DEF f, g, q, key
  <2>7. f[key] <= g[key] + q
    BY <1>3, <2>1, <2>3, <2>5, <2>6
  <2>8. Greatest0(stock[p].reserved - q) <= Sum(g, Keys)
    BY <1>3, <1>7, <2>1, <2>3, <2>4, <2>7, GivingBackBacks
  <2>9. QED
    BY <2>1, <2>8 DEF Backed, g
<1>10. QED
  BY <1>8, <1>9

\* Every other step leaves what is reserved and what is asked for.
LEMMA OthersBack ==
  ASSUME BackedInv, [Next]_vars, UNCHANGED unreleased, NEW p \in Products,
         stock'[p].reserved = stock[p].reserved
  PROVE  Backed(p)'
<1> DEFINE f == Held(p)
           g == Held(p)'
<1>1. ASSUME NEW k \in Keys PROVE f[k] = g[k]
  <2>1. p \in unreleased[k] => orders'[k].lines = orders[k].lines
    BY ItemsKept DEF BackedInv, UnreleasedPlaced, StockInv
  <2>2. QED
    BY <2>1 DEF Held
<1>2. \A k \in Keys : f[k] \in Int
  BY HeldFacts DEF BackedInv, StockInv
<1>3. stock[p].reserved <= Sum(f, Keys)
  BY DEF BackedInv, Backed
<1> HIDE DEF f, g
<1>4. Sum(f, Keys) = Sum(g, Keys)
  BY <1>1, <1>2, FiniteAssumption, SumSame
<1>5. stock'[p].reserved <= Sum(g, Keys)
  BY <1>3, <1>4
<1>6. QED
  BY <1>5 DEF Backed, g

LEMMA BackedStays == BackedInv /\ [Next]_vars => BackedInv'
<1> SUFFICES ASSUME BackedInv, [Next]_vars PROVE BackedInv'
  OBVIOUS
<1>1. StockInv' /\ UnreleasedPlaced'
  BY StockStays, UnreleasedStaysPlaced DEF BackedInv, StockInv
<1>2. ASSUME NEW p \in Products PROVE Backed(p)'
  <2>1. ASSUME NEW b \in Buyers, Reserves(b) PROVE Backed(p)'
    BY <1>1, <2>1, ReservingBacks
  <2>2. ASSUME NEW c \in Closers, ReleaseStock(c) PROVE Backed(p)'
    BY <1>1, <2>2, ReleasingBacks DEF ReleaseStock, StockInv
  <2>3. ASSUME NEW batch \in SUBSET Keys, ReapBatch(batch) PROVE Backed(p)'
    BY <1>1, <2>3, ReapingBacks DEF StockInv
  <2>4. ASSUME NEW e \in Editors, Edits(e) PROVE Backed(p)'
    <3>1. stock'[p].reserved = stock[p].reserved
      BY <2>4, EditFacts DEF BackedInv, StockInv
    <3>2. UNCHANGED unreleased
      BY <2>4 DEF Edits, orderVars
    <3>3. QED
      BY <3>1, <3>2, OthersBack
  <2>5. CASE UNCHANGED <<stock, unreleased>>
    BY <2>5, OthersBack
  <2>6. QED
    BY <2>1, <2>2, <2>3, <2>4, <2>5, StockHistory
<1>3. QED
  BY <1>1, <1>2 DEF BackedInv

LEMMA BackedStarts == Init => BackedInv
<1> SUFFICES ASSUME Init PROVE BackedInv
  OBVIOUS
<1>1. StockInv
  BY StockStarts
<1>2. UnreleasedPlaced
  BY DEF Init, InitOrders, UnreleasedPlaced
<1>3. ASSUME NEW p \in Products PROVE Backed(p)
  <2>1. stock[p].reserved = 0
    BY InitRows DEF Init
  <2>2. Sum(Held(p), Keys) \in Nat
    BY <1>1, <1>2, HeldFacts DEF StockInv
  <2>3. QED
    BY <2>1, <2>2 DEF Backed
<1>4. QED
  BY <1>1, <1>2, <1>3 DEF BackedInv

\* However orders are placed, dropped, closed twice, reaped and paid, and stock
\* is edited: a product never has more reserved than the orders that have not
\* given it back ask of it.
THEOREM ReservationsStayBacked == Spec => []ReservationsBacked
<1>1. BackedInv => ReservationsBacked
  BY BackedMeans DEF BackedInv
<1>2. QED
  BY <1>1, BackedStarts, BackedStays, PTL DEF Spec

-----------------------------------------------------------------------------
(***************************************************************************)
(* The status.                                                             *)
(***************************************************************************)

\* A step by which a product is ordered first makes its status honest.
LEMMA OrderingIsHonest ==
  ASSUME StockInv, [Next]_vars, NEW p \in Products, NEW k \in Keys,
         orders'[k] # None, p \in Bought(orders'[k].lines),
         orders[k] = None
  PROVE  NeverOptimistic(stock'[p])
<1> USE DEF StockInv
<1>1. PICK b \in Buyers : Commits(b) /\ k = placing[b].key
  BY OrdersHistory, StoreOrderFacts DEF Rewritten, Commits, Typed
<1>2. orders'[k].lines = placing[b].lines
  <2>1. orders'[k] = [status |-> "pending", payment |-> "pending",
                      lines |-> placing[b].lines, first |-> placing[b].first, stale |-> FALSE]
    BY <1>1, StoreOrderFacts DEF Commits, Typed
  <2>2. QED
    BY <2>1
<1>3. stock'[p] = ReserveRow(stock[p], placing[b].lines[p])
  BY <1>1, <1>2 DEF Commits, StoreOrder
<1>4. stock[p] \in StockRow /\ placing[b].lines[p] \in Nat
  <2>1. placing[b].lines \in Lines
    BY <1>1, PlacingShape DEF Commits, Typed
  <2>2. QED
    BY <2>1 DEF Lines, StockTypeOK
<1>5. QED
  BY <1>3, <1>4, ReserveRowFacts

LEMMA StatusStays ==
  ASSUME Editors = {}, StockInv, OrderedAreHonest, [Next]_vars
  PROVE  OrderedAreHonest'
<1> SUFFICES ASSUME NEW p \in Products, NEW k \in Placed', p \in Bought(orders'[k].lines)
             PROVE  NeverOptimistic(stock'[p])
  BY DEF OrderedAreHonest, NeverOptimistic, Recomputed, Free, Bought, Placed
<1> USE DEF StockInv
<1>1. CASE orders[k] = None
  BY <1>1, OrderingIsHonest DEF Placed
<1>2. CASE orders[k] # None
  <2>1. NeverOptimistic(stock[p])
    BY <1>2, ItemsKept DEF OrderedAreHonest, Placed, Bought
  <2>2. ASSUME NEW b \in Buyers, Reserves(b) PROVE NeverOptimistic(stock'[p])
    BY <2>1, <2>2, ReserveFacts
  <2>3. ASSUME NEW c \in Closers, ReleaseStock(c) PROVE NeverOptimistic(stock'[p])
    <3>1. CASE Releasable(c)
      BY <2>1, <2>3, <3>1, ReleaseFacts DEF ClosingPlaced, ReleaseStock
    <3>2. CASE ~Releasable(c)
      BY <2>1, <2>3, <3>2, NotReleased
    <3>3. QED
      BY <3>1, <3>2
  <2>4. ASSUME NEW batch \in SUBSET Keys, ReapBatch(batch) PROVE NeverOptimistic(stock'[p])
    BY <2>1, <2>4, ReapsSomehow, ReapFacts
  <2>5. QED
    BY <2>1, <2>2, <2>3, <2>4, StockHistory
<1>3. QED
  BY <1>1, <1>2

\* As long as nobody edits stock, no product that was ever ordered shows a status
\* that promises more than there is, whatever rounding made of its first row:
\* also not the status that the job leaves as it was.
THEOREM StatusStaysHonest == ASSUME Editors = {} PROVE Spec => []OrderedAreHonest
<1>1. Init => OrderedAreHonest
  BY DEF Init, InitOrders, OrderedAreHonest, Placed
<1>2. StockInv /\ OrderedAreHonest /\ [Next]_vars => OrderedAreHonest'
  BY StatusStays
<1>3. QED
  BY <1>1, <1>2, StockStarts, StockStays, PTL DEF Spec

-----------------------------------------------------------------------------
(***************************************************************************)
(* What makes a product oversold, and a status promise too much.           *)
(***************************************************************************)

LEMMA FreeStays ==
  ASSUME StockInv, [Next]_vars, NEW p \in Products, Free(stock[p]) >= 0
  PROVE  \/ Free(stock'[p]) >= 0
         \/ \E b \in Buyers : CommitOrder(b) /\ placing[b].lines[p] > Free(stock[p])
         \/ \E e \in Editors : FinishEdit(e) /\ edit[e].product = p
<1> USE DEF StockInv
<1>1. stock[p].available \in Nat /\ stock[p].reserved \in Nat
  BY DEF StockTypeOK, StockRow
<1>2. ASSUME NEW b \in Buyers, Reserves(b), ~(placing[b].lines[p] > Free(stock[p]))
      PROVE  Free(stock'[p]) >= 0
  <2> DEFINE n == placing[b].lines[p]
  <2>1. /\ n \in Nat
        /\ stock'[p].available = stock[p].available
        /\ stock'[p].reserved = stock[p].reserved + n
    BY <1>2, ReserveFacts
  <2>2. ~(n > Free(stock[p]))
    BY <1>2
  <2> HIDE DEF n
  <2>3. QED
    BY <1>1, <2>1, <2>2 DEF Free
<1>3. ASSUME NEW c \in Closers, ReleaseStock(c) PROVE Free(stock'[p]) >= 0
  <2>1. CASE ~Releasable(c)
    BY <1>3, <2>1, NotReleased
  <2>2. CASE Releasable(c)
    <3> DEFINE q == orders[closing[c].key].lines[p]
               left == Greatest0(stock[p].reserved - q)
    <3>1. orders[closing[c].key] # None
      BY <1>3 DEF ReleaseStock, ClosingPlaced
    <3>2. /\ q \in Nat
          /\ stock'[p].reserved = left
          /\ stock'[p].available = IF closing[c].delivered THEN stock[p].available - q
                                                           ELSE stock[p].available
          /\ stock'[p] \in StockRow
      BY <1>3, <2>2, <3>1, ReleaseFacts
    <3>3. /\ left \in Nat /\ left <= stock[p].reserved
          /\ left # 0 => left = stock[p].reserved - q
      BY <1>1, <3>2, ClampedFacts DEF Greatest0
    <3>4. stock'[p].available \in Nat
      BY <3>2 DEF StockRow
    <3> HIDE DEF q, left
    <3>5. CASE left = 0
      BY <3>2, <3>4, <3>5 DEF Free
    <3>6. CASE left # 0
      BY <1>1, <3>2, <3>3, <3>6 DEF Free
    <3>7. QED
      BY <3>5, <3>6
  <2>3. QED
    BY <2>1, <2>2
<1>4. ASSUME NEW batch \in SUBSET Keys, ReapBatch(batch) PROVE Free(stock'[p]) >= 0
  <2>1. PICK joined : Reaps(batch, joined)
    BY <1>4, ReapsSomehow
  <2>2. CASE p \notin DOMAIN joined
    BY <1>4, <2>1, <2>2, ReapFacts
  <2>3. CASE p \in DOMAIN joined
    <3> DEFINE q == TotalQuantity(orders[joined[p]].lines)
    <3>1. /\ stock'[p].available = stock[p].available
          /\ stock'[p].reserved = Greatest0(stock[p].reserved - q)
          /\ joined[p] \in Keys /\ orders[joined[p]] # None
      BY <1>4, <2>1, <2>3, ReapFacts
    <3>2. q \in Nat
      BY <3>1, TotalQuantityFacts DEF Typed, OrdersTypeOK, Order
    <3> HIDE DEF q
    <3>3. Greatest0(stock[p].reserved - q) \in Nat
          /\ Greatest0(stock[p].reserved - q) <= stock[p].reserved
      BY <1>1, <3>2, ClampedFacts
    <3>4. QED
      BY <1>1, <3>1, <3>3 DEF Free
  <2>4. QED
    BY <2>2, <2>3
<1>5. ASSUME NEW e \in Editors, Edits(e), edit[e].product # p PROVE Free(stock'[p]) >= 0
  <2>1. stock'[p] = stock[p]
    BY <1>5 DEF Edits, FinishEdit, StockTypeOK
  <2>2. QED
    BY <2>1
<1>6. \A b \in Buyers : Reserves(b) => CommitOrder(b)
  BY DEF Reserves
<1>7. \A e \in Editors : Edits(e) => FinishEdit(e)
  BY DEF Edits
<1>8. QED
  BY <1>2, <1>3, <1>4, <1>5, <1>6, <1>7, StockHistory

\* Nothing but an overtaken checkout or an edit by the farmer sells more than
\* there is: an order that is delivered without its reservation takes from what
\* is free, or fails.
THEOREM OversoldOnlyBy == Spec => OversellCauses
<1>1. StockInv /\ [Next]_vars =>
        [\A p \in Products :
           \/ Free(stock[p]) >= 0 => Free(stock'[p]) >= 0
           \/ \E b \in Buyers : CommitOrder(b) /\ placing[b].lines[p] > Free(stock[p])
           \/ \E e \in Editors : FinishEdit(e) /\ edit[e].product = p]_vars
  BY FreeStays
<1>2. QED
  BY <1>1, StockStarts, StockStays, PTL DEF Spec, OversellCauses

\* An edit's status is right for what was reserved at some time.
EditDecided == \A e \in Editors : edit[e] # None => \E r \in Nat : DecidedFor(e, r)

LEMMA EditStaysDecided ==
  ASSUME StockInv, EditDecided, [Next]_vars
  PROVE  EditDecided'
<1> USE DEF StockInv, StockTypeOK
<1>1. ASSUME NEW e \in Editors, NEW p \in Products, NEW q \in Levels \cup {None},
             NEW t \in Thresholds \cup {None}, BeginEdit(e, p, q, t)
      PROVE  EditDecided'
  <2> DEFINE available == Or(q, stock[p].available * Grain)
             limit == Or(t, stock[p].threshold * Grain)
             status == StatusOf(available - stock[p].reserved * Grain, limit)
             row == [product |-> p, available |-> available, threshold |-> limit,
                     status |-> status]
  <2>1. stock[p].reserved \in Nat
    BY DEF StockRow
  <2>2. edit' = [edit EXCEPT ![e] = row]
    BY <1>1 DEF BeginEdit
  <2>3. row.status = StatusOf(row.available - stock[p].reserved * Grain, row.threshold)
    OBVIOUS
  <2> HIDE DEF row
  <2>4. edit'[e] = row /\ \A d \in Editors \ {e} : edit'[d] = edit[d]
    BY <2>2
  <2>5. QED
    BY <2>1, <2>3, <2>4 DEF EditDecided, DecidedFor
<1>2. ASSUME NEW e \in Editors, FinishEdit(e) \/ DropEdit(e)
      PROVE  EditDecided'
  <2>1. edit'[e] = None /\ \A d \in Editors \ {e} : edit'[d] = edit[d]
    BY <1>2 DEF FinishEdit, DropEdit
  <2>2. QED
    BY <2>1 DEF EditDecided, DecidedFor
<1>3. CASE UNCHANGED edit
  BY <1>3 DEF EditDecided, DecidedFor
<1>4. CASE StockStep
  BY <1>1, <1>2, <1>3, <1>4 DEF StockStep, EditStep, DeleteProduct
<1>5. CASE ~StockStep
  BY <1>3, <1>5
     DEF Next, PlaceStep, BeginPlace, FindCart, ReadItems, CommitOrder, StoreNotification,
         PublishEvent, ClearOrderedCart, DropPlacing, CloseStep, SetStatus, ReleaseStock,
         DropClosing, PaymentStep, PaymentSucceeded, PaymentFailed, Age, ReapStep, ReapBatch,
         stockVars, vars
<1>6. QED
  BY <1>4, <1>5

\* What rounding cannot hide: free stock that has grown by a stored unit since.
LEMMA RoundedRank ==
  ASSUME NEW x \in Int, NEW t \in Int, NEW r \in Nat, NEW m \in Nat,
         \/ r > m
         \/ r = m /\ ~Coarsened(x) /\ ~Coarsened(t)
  PROVE  Rank(StatusOf(x - r * Grain, t)) <= Rank(StatusOf(Stored(x) - m, Stored(t)))
<1> DEFINE available == Stored(x)
           limit == Stored(t)
<1>1. /\ available \in Int /\ available * 10 - x <= 5 /\ x - available * 10 <= 5
      /\ limit \in Int /\ limit * 10 - t <= 5 /\ t - limit * 10 <= 5
  BY StoredNear DEF Grain
<1>2. r = m => available * 10 = x /\ limit * 10 = t
  BY StoredExact DEF Grain
<1> HIDE DEF available, limit
<1>3. CASE x - r * 10 <= 0
  <2>1. StatusOf(x - r * Grain, t) = "out_of_stock"
    BY <1>3 DEF StatusOf, Grain
  <2>2. StatusOf(available - m, limit) \in Statuses
    BY <1>1, StatusKnown
  <2>3. QED
    BY <2>1, <2>2 DEF Rank, Statuses, available, limit
<1>4. CASE x - r * 10 > 0 /\ x - r * 10 <= t
  <2>1. StatusOf(x - r * Grain, t) = "low_stock"
    BY <1>4 DEF StatusOf, Grain
  <2>2. available - m > 0
    BY <1>1, <1>2, <1>4
  <2>3. StatusOf(available - m, limit) \in {"low_stock", "in_stock"}
    BY <1>1, <2>2 DEF StatusOf
  <2>4. QED
    BY <2>1, <2>3 DEF Rank, available, limit
<1>5. CASE x - r * 10 > 0 /\ x - r * 10 > t
  <2>1. StatusOf(x - r * Grain, t) = "in_stock"
    BY <1>5 DEF StatusOf, Grain
  <2>2. available - m > 0 /\ available - m > limit
    BY <1>1, <1>2, <1>5
  <2>3. StatusOf(available - m, limit) = "in_stock"
    BY <1>1, <2>2 DEF StatusOf
  <2>4. QED
    BY <2>1, <2>3 DEF Rank, available, limit
<1>6. QED
  BY <1>3, <1>4, <1>5

\* An edit is honest that decided with more reserved than there is now, or with
\* as much and on numbers that are stored as they are.
LEMMA EditHonest ==
  ASSUME StockInv, NEW e \in Editors, Edits(e), NEW p \in Products, edit[e].product = p,
         NEW r \in Nat, DecidedFor(e, r),
         r > stock[p].reserved \/ (r = stock[p].reserved /\ ~Rounds(e))
  PROVE  NeverOptimistic(stock'[p])
<1>1. stock[p] \in StockRow /\ edit[e] \in Edit
  BY DEF StockInv, StockTypeOK, Edits, FinishEdit
<1> DEFINE x == edit[e].available
           t == edit[e].threshold
           available == Stored(x)
           limit == Stored(t)
           row == [stock[p] EXCEPT !.available = available,
                                   !.threshold = limit,
                                   !.status    = edit[e].status]
<1>2. stock'[p] = row
  BY DEF StockInv, StockTypeOK, Edits, FinishEdit
<1>3. stock'[p] \in StockRow
  BY EditFacts DEF StockInv
<1>4. x \in Int /\ t \in Int /\ stock[p].reserved \in Nat
  BY <1>1 DEF StockRow, Edit
<1>5. edit[e].status = StatusOf(x - r * Grain, t)
  BY DEF DecidedFor
<1>6. Rank(StatusOf(x - r * Grain, t)) <= Rank(StatusOf(available - stock[p].reserved, limit))
  <2>1. r > stock[p].reserved \/ (r = stock[p].reserved /\ ~Coarsened(x) /\ ~Coarsened(t))
    BY DEF Rounds
  <2> HIDE DEF x, t
  <2>2. QED
    BY <1>4, <2>1, RoundedRank
<1> HIDE DEF x, t, available, limit
<1>7. /\ row.available = available /\ row.threshold = limit
      /\ row.status = edit[e].status /\ row.reserved = stock[p].reserved
  BY <1>1 DEF StockRow
<1> HIDE DEF row
<1>8. NeverOptimistic(row)
  BY <1>2, <1>3, <1>5, <1>6, <1>7, HonestMeans
<1>9. QED
  BY <1>2, <1>8

LEMMA HonestStays ==
  ASSUME StockInv, EditDecided, [Next]_vars, NEW p \in Products, NeverOptimistic(stock[p])
  PROVE  \/ NeverOptimistic(stock'[p])
         \/ \E e \in Editors :
              /\ FinishEdit(e)
              /\ edit[e].product = p
              /\ \E r \in 0..stock[p].reserved :
                   DecidedFor(e, r) /\ (r < stock[p].reserved \/ Rounds(e))
<1>1. ASSUME NEW b \in Buyers, Reserves(b) PROVE NeverOptimistic(stock'[p])
  BY <1>1, ReserveFacts DEF StockInv
<1>2. ASSUME NEW c \in Closers, ReleaseStock(c) PROVE NeverOptimistic(stock'[p])
  <2>1. CASE Releasable(c)
    BY <1>2, <2>1, ReleaseFacts DEF ClosingPlaced, ReleaseStock, StockInv
  <2>2. CASE ~Releasable(c)
    BY <1>2, <2>2, NotReleased
  <2>3. QED
    BY <2>1, <2>2
<1>3. ASSUME NEW batch \in SUBSET Keys, ReapBatch(batch) PROVE NeverOptimistic(stock'[p])
  BY <1>3, ReapsSomehow, ReapFacts DEF StockInv
<1>4. ASSUME NEW e \in Editors, Edits(e)
      PROVE  \/ NeverOptimistic(stock'[p])
             \/ /\ FinishEdit(e)
                /\ edit[e].product = p
                /\ \E r \in 0..stock[p].reserved :
                     DecidedFor(e, r) /\ (r < stock[p].reserved \/ Rounds(e))
  <2>1. CASE edit[e].product # p
    <3>1. stock'[p] = stock[p]
      BY <1>4, <2>1 DEF Edits, FinishEdit, StockInv, StockTypeOK
    <3>2. QED
      BY <3>1
  <2>2. CASE edit[e].product = p
    <3>1. PICK r \in Nat : DecidedFor(e, r)
      BY <1>4 DEF EditDecided, Edits, FinishEdit
    <3>2. stock[p].reserved \in Nat
      BY DEF StockInv, StockTypeOK, StockRow
    <3>3. CASE r > stock[p].reserved \/ (r = stock[p].reserved /\ ~Rounds(e))
      BY <1>4, <2>2, <3>1, <3>3, EditHonest
    <3>4. CASE r < stock[p].reserved \/ (r = stock[p].reserved /\ Rounds(e))
      <4>1. r \in 0..stock[p].reserved
        BY <3>2, <3>4
      <4>2. QED
        BY <1>4, <2>2, <3>1, <3>4, <4>1 DEF Edits
    <3>5. QED
      BY <3>2, <3>3, <3>4
  <2>3. QED
    BY <2>1, <2>2
<1>5. QED
  BY <1>1, <1>2, <1>3, <1>4, StockHistory

\* With any number of edits among everything else, a row starts to promise too
\* much only when an edit is written that something was reserved beside, or whose
\* numbers the columns round.
THEOREM EditsMisleadOnly == Spec => EditsMislead
<1>1. StockInv /\ EditDecided /\ [Next]_vars =>
        [\A p \in Products :
           \/ NeverOptimistic(stock[p]) => NeverOptimistic(stock'[p])
           \/ \E e \in Editors :
                /\ FinishEdit(e)
                /\ edit[e].product = p
                /\ \E r \in 0..stock[p].reserved :
                     DecidedFor(e, r) /\ (r < stock[p].reserved \/ Rounds(e))]_vars
  BY HonestStays
<1>2. Init => EditDecided
  BY DEF Init, InitStock, EditDecided
<1>3. StockInv /\ EditDecided /\ [Next]_vars => EditDecided'
  BY EditStaysDecided
<1>4. QED
  BY <1>1, <1>2, <1>3, StockStarts, StockStays, PTL DEF Spec, EditsMislead

-----------------------------------------------------------------------------
(***************************************************************************)
(* The ledger, step by step.                                               *)
(***************************************************************************)

Exact(p) == stock[p].reserved = Sum(Outstanding(p), Keys)

LEMMA BalancedMeans == \A p \in Products : Balanced(p) <=> Exact(p)
  BY DEF Balanced, Exact, Sum

LEMMA ExactMeans == LedgerExact <=> \A p \in Products : Exact(p)
  BY BalancedMeans DEF LedgerExact

LEMMA OutstandingFacts ==
  ASSUME Typed, NEW p \in Products
  PROVE  /\ \A k \in Keys : Outstanding(p)[k] \in Nat
         /\ Sum(Outstanding(p), Keys) \in Nat
         /\ \A k \in Keys : Outstanding(p)[k] <= Sum(Outstanding(p), Keys)
<1>1. \A k \in Keys : orders[k] # None => orders[k].lines[p] \in Nat
  BY DEF Typed, OrdersTypeOK, Order, Lines
<1>2. \A k \in Keys : Outstanding(p)[k] \in Nat
  BY <1>1 DEF Outstanding, Due
<1>3. QED
  BY <1>2, FiniteAssumption, SumNat

LEMMA OutstandingNext ==
  ASSUME Typed', NEW p \in Products
  PROVE  \A k \in Keys : Outstanding(p)'[k] \in Nat
<1>1. \A k \in Keys : orders'[k] # None => orders'[k].lines[p] \in Nat
  BY DEF Typed, OrdersTypeOK, Order, Lines
<1>2. QED
  BY <1>1 DEF Outstanding, Due

\* A step that takes nothing and changes nothing about which orders are due ...
LEMMA QuietBalances ==
  ASSUME StockInv, [Next]_vars, NEW p \in Products, stock'[p].reserved = stock[p].reserved,
         \A j \in Keys : Due(j)' <=> Due(j), Exact(p)
  PROVE  Exact(p)'
<1> DEFINE f == Outstanding(p)
           g == Outstanding(p)'
<1>1. ASSUME NEW k \in Keys PROVE f[k] = g[k]
  <2>1. Due(k) => orders'[k].lines = orders[k].lines
    BY ItemsKept DEF Due, StockInv
  <2>2. QED
    BY <2>1 DEF Outstanding
<1>2. \A k \in Keys : f[k] \in Int
  BY OutstandingFacts DEF StockInv
<1>3. stock[p].reserved = Sum(f, Keys)
  BY DEF Exact
<1> HIDE DEF f, g
<1>4. Sum(f, Keys) = Sum(g, Keys)
  BY <1>1, <1>2, FiniteAssumption, SumSame
<1>5. stock'[p].reserved = Sum(g, Keys)
  BY <1>3, <1>4
<1>6. QED
  BY <1>5 DEF Exact, g

\* ... a checkout, which reserves what its order will ask for ...
LEMMA ReservingBalances ==
  ASSUME StockInv, Typed', NEW b \in Buyers, Reserves(b), NEW p \in Products, Exact(p)
  PROVE  Exact(p)'
<1> USE DEF StockInv, Typed
<1>0. PICK key \in Keys : key = placing[b].key
  BY PlacingShape DEF Reserves
<1> DEFINE n == placing[b].lines[p]
           f == Outstanding(p)
           g == Outstanding(p)'
<1>1. /\ stock'[p].reserved = stock[p].reserved + n
      /\ n \in Nat /\ stock[p].reserved \in Nat
  BY ReserveFacts DEF StockTypeOK, StockRow
<1>2. orders[key] = None
  BY <1>0 DEF Reserves
<1>3. f[key] = 0
  BY <1>2 DEF Outstanding, Due
<1>4. g[key] = n
  <2>1. /\ orders'[key] = [status |-> "pending", payment |-> "pending",
             lines |-> placing[b].lines, first |-> placing[b].first, stale |-> FALSE]
        /\ orders'[key] # None
    BY <1>0, StoreOrderFacts DEF Reserves
  <2>2. orders'[key].status = "pending" /\ orders'[key].lines = placing[b].lines
    BY <2>1
  <2>3. Due(key)'
    BY <2>1, <2>2 DEF Due, Closed
  <2>4. QED
    BY <1>2, <2>2, <2>3 DEF Outstanding
<1>5. ASSUME NEW k \in Keys \ {key} PROVE f[k] = g[k]
  <2>1. orders'[k] = orders[k] /\ UNCHANGED closing
    BY <1>0, <1>5, StoreOrderFacts DEF Reserves
  <2>2. QED
    BY <2>1 DEF Outstanding, Due
<1>6. \A k \in Keys : f[k] \in Nat /\ g[k] \in Nat
  BY OutstandingFacts, OutstandingNext
<1>7. Sum(f, Keys) \in Nat /\ stock[p].reserved = Sum(f, Keys)
  BY OutstandingFacts DEF Exact
<1> HIDE DEF f, g, n, StockInv, Typed
<1>8. Sum(g, Keys) = Sum(f, Keys) - f[key] + g[key]
  BY <1>2, <1>5, <1>6, FiniteAssumption, SumChanges
<1>9. stock'[p].reserved = Sum(g, Keys)
  BY <1>1, <1>3, <1>4, <1>7, <1>8
<1>10. QED
  BY <1>9 DEF Exact, g

\* ... and a row that gives back what one order asked for, and nothing else.
LEMMA GivingBackBalances ==
  ASSUME Typed, Typed', NEW p \in Products, Exact(p), NEW key \in Keys,
         NEW q \in Nat, Outstanding(p)[key] = q, Outstanding(p)'[key] = 0,
         \A k \in Keys \ {key} : Outstanding(p)[k] = Outstanding(p)'[k],
         stock'[p].reserved = Greatest0(stock[p].reserved - q)
  PROVE  /\ Exact(p)'
         /\ q <= stock[p].reserved
         /\ stock'[p].reserved = stock[p].reserved - q
<1> DEFINE f == Outstanding(p)
           g == Outstanding(p)'
<1>1. \A k \in Keys : f[k] \in Nat /\ g[k] \in Nat
  BY OutstandingFacts, OutstandingNext
<1>2. Sum(f, Keys) \in Nat /\ stock[p].reserved = Sum(f, Keys) /\ f[key] <= Sum(f, Keys)
  BY OutstandingFacts DEF Exact
<1> HIDE DEF f, g
<1>3. f[key] = q /\ g[key] = 0 /\ \A k \in Keys \ {key} : f[k] = g[k]
  BY DEF f, g
<1>4. Sum(g, Keys) = Sum(f, Keys) - f[key] + g[key]
  BY <1>1, <1>3, FiniteAssumption, SumChanges
<1>5. q <= stock[p].reserved
  BY <1>2, <1>3
<1>6. stock'[p].reserved = stock[p].reserved - q
  BY <1>2, <1>5, ClampedFacts
<1>7. stock'[p].reserved = Sum(g, Keys)
  BY <1>2, <1>3, <1>4, <1>6
<1>8. QED
  BY <1>5, <1>6, <1>7 DEF Exact, g

\* The release of a closed order that is not due any more afterwards.
LEMMA ReleasingBalances ==
  ASSUME StockInv, Typed', NEW c \in Closers, ReleaseStock(c), Releasable(c),
         NEW key \in Keys, key = closing[c].key, ~Due(key)', NEW p \in Products, Exact(p)
  PROVE  /\ Exact(p)'
         /\ orders[key].lines[p] \in Nat
         /\ orders[key].lines[p] <= stock[p].reserved
         /\ stock'[p].reserved = stock[p].reserved - orders[key].lines[p]
<1> USE DEF StockInv, Typed
<1>1. /\ closing[c] # None /\ orders[key] # None
      /\ UNCHANGED orders
      /\ closing' = [closing EXCEPT ![c] = None]
  BY DEF ReleaseStock, ClosingPlaced
<1>2. closing'[c] = None /\ \A d \in Closers \ {c} : closing'[d] = closing[d]
  BY <1>1 DEF OrdersTypeOK
<1> DEFINE q == orders[key].lines[p]
           f == Outstanding(p)
           g == Outstanding(p)'
<1>3. q \in Nat /\ stock'[p].reserved = Greatest0(stock[p].reserved - q)
  BY <1>1, ReleaseFacts
<1>4. f[key] = q
  BY <1>1 DEF Outstanding, Due
<1>5. g[key] = 0
  BY <1>1 DEF Outstanding
<1>6. ASSUME NEW k \in Keys \ {key} PROVE f[k] = g[k]
  <2>1. (\E d \in Closers : closing'[d] # None /\ closing'[d].key = k)
          <=> (\E d \in Closers : closing[d] # None /\ closing[d].key = k)
    BY <1>2, <1>6
  <2>2. Due(k)' <=> Due(k)
    BY <1>1, <2>1 DEF Due
  <2>3. QED
    BY <1>1, <2>2 DEF Outstanding
<1> HIDE DEF q, StockInv
<1>7. /\ Exact(p)' /\ q <= stock[p].reserved
      /\ stock'[p].reserved = stock[p].reserved - q
  BY <1>3, <1>4, <1>5, <1>6, GivingBackBalances DEF StockInv
<1>8. QED
  BY <1>3, <1>7 DEF q

\* A status change that has yet to release found its order closed, so that the
\* job leaves the order alone.
ClosingNotPending ==
  \A c \in Closers : closing[c] # None => orders[closing[c].key].status # "pending"

\* What a step of another kind than these leaves as it is: the orders' statuses
\* and the changes under way.
LEMMA LedgerHistory ==
  ASSUME Typed, [Next]_vars
  PROVE  \/ \E b \in Buyers : Reserves(b)
         \/ \E c \in Closers, k \in Keys, status \in Requested : SetStatus(c, k, status)
         \/ \E c \in Closers : ReleaseStock(c) \/ DropClosing(c)
         \/ \E k \in Keys : PaymentSucceeded(k) \/ PaymentFailed(k) \/ Age(k)
         \/ \E batch \in SUBSET Keys : ReapBatch(batch)
         \/ \E e \in Editors : Edits(e)
         \/ UNCHANGED <<stock, orders, closing>>
<1>1. CASE StockStep /\ UNCHANGED <<cartVars, orderVars>>
  BY <1>1 DEF StockStep, EditStep, BeginEdit, DropEdit, DeleteProduct, Edits, orderVars
<1>2. CASE CartStep /\ UNCHANGED <<stockVars, orderVars>>
  BY <1>2 DEF stockVars, orderVars
<1>3. CASE PlaceStep
  <2>1. ASSUME NEW b \in Buyers, CommitOrder(b)
        PROVE  Reserves(b) \/ UNCHANGED <<stock, orders, closing>>
    BY <2>1 DEF CommitOrder, Reserves
  <2>2. QED
    BY <1>3, <2>1 DEF PlaceStep, BeginPlace, FindCart, ReadItems, StoreNotification, PublishEvent,
                      ClearOrderedCart, DropPlacing, stockVars
<1>4. CASE CloseStep
  BY <1>4 DEF CloseStep
<1>5. CASE PaymentStep
  BY <1>5 DEF PaymentStep
<1>6. CASE \E k \in Keys : Age(k)
  BY <1>6
<1>7. CASE ReapStep
  BY <1>7 DEF ReapStep
<1>8. CASE UNCHANGED vars
  BY <1>8 DEF vars, stockVars, orderVars
<1>9. QED
  BY <1>1, <1>2, <1>3, <1>4, <1>5, <1>6, <1>7, <1>8 DEF Next

\* What the writes of an order's status do to it and to the others.
LEMMA SetStatusFacts ==
  ASSUME Typed, NEW c \in Closers, NEW k \in Keys, NEW status \in Requested,
         SetStatus(c, k, status)
  PROVE  /\ UNCHANGED stock
         /\ orders[k] # None /\ orders'[k] # None /\ orders'[k].status = status
         /\ status # "pending"
         /\ \A j \in Keys \ {k} : orders'[j] = orders[j]
         /\ closing[c] = None
         /\ \A d \in Closers \ {c} : closing'[d] = closing[d]
         /\ status \in Closed => closing'[c] # None /\ closing'[c].key = k
         /\ status \notin Closed => closing'[c] = None
<1> USE DEF Typed
<1>1. /\ orders[k] \in Order /\ closing[c] = None /\ orders[k] # None
      /\ orders' = [orders EXCEPT ![k].status = status]
      /\ closing' = IF status \in Closed
                      THEN [closing EXCEPT ![c] = [key |-> k, delivered |-> status = "delivered"]]
                      ELSE closing
      /\ UNCHANGED stock
  BY DEF SetStatus, OrdersTypeOK, stockVars
<1>2. orders'[k].status = status /\ \A j \in Keys : j # k => orders'[j] = orders[j]
  BY <1>1 DEF OrdersTypeOK, Order
<1>3. orders'[k] # None
  BY <1>1, SetStatusRewrites DEF Rewritten
<1>4. status # "pending"
  BY DEF SetStatus, Allowed
<1> DEFINE new == [key |-> k, delivered |-> status = "delivered"]
<1>5. new # None /\ new.key = k
  <2>1. new \in Closing
    BY DEF Closing
  <2>2. QED
    BY <2>1, OrderAssumption
<1>6. CASE status \in Closed
  <2>1. closing' = [closing EXCEPT ![c] = new]
    BY <1>1, <1>6
  <2> HIDE DEF new
  <2>2. closing'[c] = new /\ \A d \in Closers \ {c} : closing'[d] = closing[d]
    BY <2>1 DEF OrdersTypeOK
  <2>3. QED
    BY <1>1, <1>2, <1>3, <1>4, <1>5, <1>6, <2>2
<1>7. CASE status \notin Closed
  BY <1>1, <1>2, <1>3, <1>4, <1>7
<1>8. QED
  BY <1>6, <1>7

LEMMA PaymentFacts ==
  ASSUME Typed, NEW k \in Keys, PaymentSucceeded(k) \/ PaymentFailed(k) \/ Age(k)
  PROVE  /\ UNCHANGED <<stock, closing>>
         /\ orders[k] # None /\ orders'[k] # None
         /\ orders'[k].status \in {orders[k].status, "confirmed"}
         /\ \A j \in Keys \ {k} : orders'[j] = orders[j]
<1> USE DEF Typed
<1>1. UNCHANGED <<closing, stock>> /\ orders[k] # None /\ orders[k] \in Order
  BY DEF PaymentSucceeded, PaymentFailed, Age, stockVars, OrdersTypeOK
<1>2. orders'[k] # None
  BY <1>1, PaymentRewrites, AgeRewrites DEF Rewritten
<1>3. \A j \in Keys \ {k} : orders'[j] = orders[j]
  BY DEF PaymentSucceeded, PaymentFailed, Age, OrdersTypeOK
<1>4. CASE PaymentSucceeded(k)
  <2>1. orders'[k].status = "confirmed"
    BY <1>1, <1>4 DEF PaymentSucceeded, OrdersTypeOK, Order
  <2>2. QED
    BY <1>1, <1>2, <1>3, <2>1
<1>5. CASE PaymentFailed(k)
  <2>1. orders'[k].status = orders[k].status
    BY <1>1, <1>5 DEF PaymentFailed, OrdersTypeOK, Order
  <2>2. QED
    BY <1>1, <1>2, <1>3, <2>1
<1>6. CASE Age(k)
  <2>1. orders'[k].status = orders[k].status
    BY <1>1, <1>6 DEF Age, OrdersTypeOK, Order
  <2>2. QED
    BY <1>1, <1>2, <1>3, <2>1
<1>7. QED
  BY <1>4, <1>5, <1>6

LEMMA ReapStatus ==
  ASSUME Typed, NEW batch \in SUBSET Keys, ReapBatch(batch)
  PROVE  /\ UNCHANGED closing
         /\ \A k \in batch : /\ orders[k] # None /\ orders[k].status = "pending"
                             /\ orders'[k] # None /\ orders'[k].status = "cancelled"
         /\ \A k \in Keys \ batch : orders'[k] = orders[k]
<1>1. ASSUME NEW k \in batch
      PROVE  /\ orders[k] # None /\ orders[k].status = "pending"
             /\ orders'[k] # None /\ orders'[k].status = "cancelled"
  <2>1. orders[k] # None /\ orders[k].status = "pending" /\ orders[k] \in Order
    BY <1>1 DEF ReapBatch, Reapable, Typed, OrdersTypeOK
  <2>2. orders'[k] = Cancelled(orders[k])
    BY <1>1 DEF ReapBatch
  <2>3. orders'[k].status = "cancelled"
    BY <2>1, <2>2 DEF Cancelled, Order
  <2>4. orders'[k] # None
    BY <2>1, ReapRewrites DEF Rewritten, Typed
  <2>5. QED
    BY <2>1, <2>3, <2>4
<1>2. QED
  BY <1>1 DEF ReapBatch

LEMMA ClosingNotPendingStays ==
  ASSUME StockInv, ClosingNotPending, [Next]_vars
  PROVE  ClosingNotPending'
<1> USE DEF StockInv
<1>1. ASSUME NEW c \in Closers, closing'[c] # None
      PROVE  orders'[closing'[c].key].status # "pending"
  <2>1. CASE closing'[c] = closing[c]
    <3>1. PICK key \in Keys : key = closing[c].key
      BY <1>1, <2>1, ClosingShape DEF Typed
    <3>2. orders[key] # None /\ orders[key].status # "pending"
      BY <1>1, <2>1, <3>1 DEF ClosingNotPending, ClosingPlaced
    <3>3. ASSUME NEW b \in Buyers, Reserves(b) PROVE orders'[key] = orders[key]
      BY <3>2, <3>3, StoreOrderFacts DEF Reserves, Typed
    <3>4. ASSUME NEW d \in Closers, NEW k \in Keys, NEW status \in Requested,
                 SetStatus(d, k, status)
          PROVE  orders'[key].status # "pending"
      BY <3>2, <3>4, SetStatusFacts
    <3>5. ASSUME NEW k \in Keys, PaymentSucceeded(k) \/ PaymentFailed(k) \/ Age(k)
          PROVE  orders'[key].status # "pending"
      BY <3>2, <3>5, PaymentFacts
    <3>6. ASSUME NEW batch \in SUBSET Keys, ReapBatch(batch)
          PROVE  orders'[key].status # "pending"
      BY <3>2, <3>6, ReapStatus
    <3>7. ASSUME NEW d \in Closers, ReleaseStock(d) \/ DropClosing(d)
          PROVE  orders'[key] = orders[key]
      BY <3>7 DEF ReleaseStock, DropClosing
    <3>8. ASSUME NEW e \in Editors, Edits(e) PROVE orders'[key] = orders[key]
      BY <3>8 DEF Edits, orderVars
    <3>9. orders'[key].status # "pending"
      BY <3>2, <3>3, <3>4, <3>5, <3>6, <3>7, <3>8, LedgerHistory
    <3>10. QED
      BY <2>1, <3>1, <3>9
  <2>2. ASSUME NEW k \in Keys, NEW status \in Requested,
               SetStatus(c, k, status),
               closing'[c] = [key |-> k, delivered |-> status = "delivered"]
        PROVE  orders'[closing'[c].key].status # "pending"
    <3>1. closing'[c].key = k
      BY <2>2
    <3>2. QED
      BY <2>2, <3>1, SetStatusFacts
  <2>3. QED
    BY <1>1, <2>1, <2>2, ClosingHistory
<1>2. QED
  BY <1>1 DEF ClosingNotPending

\* Only an order that is not due before can be due after another's status ...
LEMMA SetStatusDue ==
  ASSUME Typed, NEW c \in Closers, NEW k \in Keys, NEW status \in Requested,
         SetStatus(c, k, status), ~RevivesOrder
  PROVE  \A j \in Keys : Due(j)' <=> Due(j)
<1> SUFFICES ASSUME NEW j \in Keys PROVE Due(j)' <=> Due(j)
  OBVIOUS
<1>1. CASE j = k
  <2>1. Due(k)'
    BY SetStatusFacts DEF Due
  <2>2. k \in Placed
    BY SetStatusFacts DEF Placed
  <2>3. Due(k)
    BY <2>1, <2>2 DEF RevivesOrder
  <2>4. QED
    BY <1>1, <2>1, <2>3
<1>2. CASE j # k
  <2>1. orders'[j] = orders[j]
    BY <1>2, SetStatusFacts
  <2>2. (\E d \in Closers : closing'[d] # None /\ closing'[d].key = j)
          <=> (\E d \in Closers : closing[d] # None /\ closing[d].key = j)
    BY <1>2, SetStatusFacts
  <2>3. QED
    BY <2>1, <2>2 DEF Due
<1>3. QED
  BY <1>1, <1>2

LEMMA PaymentDue ==
  ASSUME Typed, NEW k \in Keys, PaymentSucceeded(k) \/ PaymentFailed(k) \/ Age(k), ~RevivesOrder
  PROVE  \A j \in Keys : Due(j)' <=> Due(j)
<1> SUFFICES ASSUME NEW j \in Keys PROVE Due(j)' <=> Due(j)
  OBVIOUS
<1>1. CASE j = k
  <2>1. k \in Placed
    BY PaymentFacts DEF Placed
  <2>2. Due(k)' => Due(k)
    BY <2>1 DEF RevivesOrder
  <2>3. Due(k) => Due(k)'
    BY PaymentFacts DEF Due, Closed
  <2>4. QED
    BY <1>1, <2>2, <2>3
<1>2. CASE j # k
  BY <1>2, PaymentFacts DEF Due
<1>3. QED
  BY <1>1, <1>2

\* A run of the job on orders of one line each takes back from each row what
\* the one order with that product asked of it.
LEMMA ReapingBalances ==
  ASSUME StockInv, ClosingNotPending, Typed', NEW batch \in SUBSET Keys, ReapBatch(batch),
         OneLineEach(batch), NEW p \in Products, Exact(p)
  PROVE  Exact(p)'
<1> USE DEF StockInv
<1>1. PICK joined : Reaps(batch, joined)
  BY ReapsSomehow
<1> DEFINE f == Outstanding(p)
           g == Outstanding(p)'
<1>2. ASSUME NEW k \in Keys \ batch PROVE f[k] = g[k]
  BY <1>2, ReapStatus DEF Outstanding, Due
<1>3. ASSUME NEW k \in batch
      PROVE  /\ orders[k].lines \in Lines
             /\ f[k] = orders[k].lines[p]
             /\ g[k] = 0
             /\ orders[k].first # p => orders[k].lines[p] = 0
  <2>1. k \in Keys /\ orders[k] # None /\ orders[k].status = "pending"
    BY <1>3, ReapStatus
  <2>2. orders[k].lines \in Lines
    BY <2>1 DEF Typed, OrdersTypeOK, Order
  <2>3. f[k] = orders[k].lines[p]
    BY <2>1 DEF Outstanding, Due, Closed
  <2>4. \A c \in Closers : closing[c] = None \/ closing[c].key # k
    BY <2>1 DEF ClosingNotPending
  <2>5. ~Due(k)'
    BY <1>3, <2>4, ReapStatus DEF Due, Closed
  <2>6. g[k] = 0
    BY <2>1, <2>5 DEF Outstanding
  <2>7. Bought(orders[k].lines) = {orders[k].first}
    BY <1>3 DEF OneLineEach
  <2>8. orders[k].first # p => ~(orders[k].lines[p] > 0)
    BY <2>7 DEF Bought
  <2>9. orders[k].lines[p] \in Nat
    BY <2>2 DEF Lines
  <2>10. QED
    BY <2>2, <2>3, <2>6, <2>8, <2>9
<1>4. DOMAIN joined = {orders[k].first : k \in batch}
  BY <1>1 DEF Reaps
<1>5. CASE p \in DOMAIN joined
  <2>1. PICK key \in batch : key = joined[p]
    BY <1>1, <1>5 DEF Reaps
  <2>2. orders[key].first = p
    BY <1>1, <1>5, <2>1 DEF Reaps
  <2> DEFINE q == orders[key].lines[p]
  <2>3. TotalQuantity(orders[key].lines) = q
    <3> DEFINE items == orders[key].lines
    <3>1. DOMAIN items = Products /\ \A r \in Products : items[r] \in Nat
      BY <1>3, <2>1 DEF Lines
    <3>2. Bought(items) = {p}
      BY <2>1, <2>2 DEF OneLineEach
    <3>3. \A r \in Products \ {p} : items[r] = 0
      BY <3>1, <3>2 DEF Bought
    <3> HIDE DEF items
    <3>4. IsFiniteSet(Products \ {p})
      BY FiniteAssumption, FS_Subset
    <3>5. Sum(items, Products \ {p}) = 0
      BY <3>3, <3>4, SumZero
    <3>6. Sum(items, Products) = items[p] + Sum(items, Products \ {p})
      BY <3>1, FiniteAssumption, SumSplit
    <3>7. Sum(items, Products) = items[p]
      BY <3>1, <3>5, <3>6
    <3>8. TotalQuantity(items) = Sum(items, Products)
      BY <3>1 DEF TotalQuantity, SumFunction, Sum
    <3>9. QED
      BY <3>7, <3>8 DEF items
  <2>4. stock'[p].reserved = Greatest0(stock[p].reserved - q)
    BY <1>1, <1>5, <2>1, <2>3, ReapFacts
  <2>5. q \in Nat /\ f[key] = q /\ g[key] = 0
    BY <1>3, <2>1 DEF Lines
  <2>6. \A k \in batch \ {key} : orders[k].first # p
    BY <2>1, <2>2 DEF OneLineEach
  <2>7. \A k \in Keys \ {key} : f[k] = g[k]
    BY <1>2, <1>3, <2>6
  <2>8. key \in Keys
    BY <2>1
  <2> HIDE DEF q, StockInv
  <2>9. QED
    BY <2>4, <2>5, <2>7, <2>8, GivingBackBalances DEF StockInv
<1>6. CASE p \notin DOMAIN joined
  <2>1. stock'[p] = stock[p]
    BY <1>1, <1>6, ReapFacts
  <2>2. \A k \in batch : orders[k].first # p
    BY <1>4, <1>6
  <2>3. \A k \in Keys : f[k] = g[k]
    BY <1>2, <1>3, <2>2
  <2>4. \A k \in Keys : f[k] \in Int
    BY OutstandingFacts
  <2>5. stock[p].reserved = Sum(f, Keys)
    BY DEF Exact
  <2> HIDE DEF f, g
  <2>6. Sum(f, Keys) = Sum(g, Keys)
    BY <2>3, <2>4, FiniteAssumption, SumSame
  <2>7. stock'[p].reserved = Sum(g, Keys)
    BY <2>1, <2>5, <2>6
  <2>8. QED
    BY <2>7 DEF Exact, g
<1>7. QED
  BY <1>5, <1>6

SlipInv == StockInv /\ ClosingNotPending

LEMMA SlipInvStays == SlipInv /\ [Next]_vars => SlipInv'
  BY StockStays, ClosingNotPendingStays DEF SlipInv

\* A product's reservation is put out by nothing else.
LEMMA StepBalances ==
  ASSUME SlipInv, [Next]_vars, ~LosesRelease, ~ReleasesDue, ~RevivesOrder, ~ReapsWrongly,
         NEW p \in Products, Exact(p)
  PROVE  Exact(p)'
<1> USE DEF SlipInv
<1>0. StockInv'
  BY StockStays
<1>1. ASSUME NEW b \in Buyers, Reserves(b) PROVE Exact(p)'
  BY <1>0, <1>1, ReservingBalances DEF StockInv
<1>2. ASSUME NEW c \in Closers, NEW k \in Keys, NEW status \in Requested, SetStatus(c, k, status)
      PROVE  Exact(p)'
  <2>1. \A j \in Keys : Due(j)' <=> Due(j)
    BY <1>2, SetStatusDue DEF StockInv
  <2>2. stock'[p].reserved = stock[p].reserved
    BY <1>2 DEF SetStatus, stockVars
  <2>3. QED
    BY <2>1, <2>2, QuietBalances
<1>3. ASSUME NEW c \in Closers, ReleaseStock(c) PROVE Exact(p)'
  <2>1. PICK key \in Keys : key = closing[c].key
    BY <1>3, ClosingShape DEF ReleaseStock, StockInv, Typed
  <2>2. closing[c] # None /\ closing'[c] = None /\ orders[key] # None
    BY <1>3, <2>1 DEF ReleaseStock, StockInv, Typed, OrdersTypeOK, ClosingPlaced
  <2>3. Releasable(c)
    BY <1>3, <2>2, NotReleased DEF LosesRelease
  <2>4. ~Due(key)'
    BY <2>1, <2>2 DEF ReleasesDue, Placed
  <2>5. QED
    BY <1>0, <1>3, <2>1, <2>3, <2>4, ReleasingBalances DEF StockInv
<1>4. ASSUME NEW c \in Closers, DropClosing(c) PROVE FALSE
  <2>1. closing[c] # None /\ closing'[c] = None /\ UNCHANGED stock
    BY <1>4 DEF DropClosing, stockVars, StockInv, Typed, OrdersTypeOK
  <2>2. QED
    BY <2>1 DEF LosesRelease
<1>5. ASSUME NEW k \in Keys, PaymentSucceeded(k) \/ PaymentFailed(k) \/ Age(k) PROVE Exact(p)'
  <2>1. \A j \in Keys : Due(j)' <=> Due(j)
    BY <1>5, PaymentDue DEF StockInv
  <2>2. stock'[p].reserved = stock[p].reserved
    BY <1>5, PaymentFacts DEF StockInv
  <2>3. QED
    BY <2>1, <2>2, QuietBalances
<1>6. ASSUME NEW batch \in SUBSET Keys, ReapBatch(batch) PROVE Exact(p)'
  <2>1. OneLineEach(batch)
    BY <1>6 DEF ReapsWrongly
  <2>2. QED
    BY <1>0, <1>6, <2>1, ReapingBalances DEF StockInv
<1>7. ASSUME NEW e \in Editors, Edits(e) PROVE Exact(p)'
  <2>1. \A j \in Keys : Due(j)' <=> Due(j)
    BY <1>7 DEF Edits, orderVars, Due
  <2>2. stock'[p].reserved = stock[p].reserved
    BY <1>7, EditFacts DEF StockInv
  <2>3. QED
    BY <2>1, <2>2, QuietBalances
<1>8. CASE UNCHANGED <<stock, orders, closing>>
  <2>1. \A j \in Keys : Due(j)' <=> Due(j)
    BY <1>8 DEF Due
  <2>2. QED
    BY <1>8, <2>1, QuietBalances
<1>9. QED
  BY <1>1, <1>2, <1>3, <1>4, <1>5, <1>6, <1>7, <1>8, LedgerHistory DEF StockInv

\* Whatever runs beside it, only four kinds of step put a product's reservation
\* out of step with the orders: a release that comes to nothing, the release of
\* an order that is due again, a closed order that is revived, and a run of the
\* job over orders of several lines or of one product.
THEOREM LedgerSlipsOnly == Spec => LedgerSlips
<1>1. SlipInv /\ [Next]_vars =>
        [\/ \A p \in Products : Balanced(p) => Balanced(p)'
         \/ LosesRelease \/ ReleasesDue \/ RevivesOrder \/ ReapsWrongly]_vars
  <2> SUFFICES ASSUME SlipInv, [Next]_vars, ~LosesRelease, ~ReleasesDue, ~RevivesOrder,
                      ~ReapsWrongly, NEW p \in Products, Balanced(p)
               PROVE  Balanced(p)'
    OBVIOUS
  <2>1. Exact(p)'
    BY StepBalances, BalancedMeans
  <2>2. QED
    BY <2>1 DEF Balanced, Exact, Sum
<1>2. Init => SlipInv
  BY StockStarts DEF Init, InitOrders, SlipInv, ClosingNotPending
<1>3. QED
  BY <1>1, <1>2, SlipInvStays, PTL DEF Spec, LedgerSlips

-----------------------------------------------------------------------------
(***************************************************************************)
(* The disciplined shop, with one checkout at a time.                      *)
(***************************************************************************)

\* A status change that has yet to release is the only one for its order, which
\* is closed already.
ClosingOnce ==
  \A c, d \in Closers :
    closing[c] # None /\ closing[d] # None /\ closing[c].key = closing[d].key => c = d

ClosingClosed ==
  \A c \in Closers : closing[c] # None => orders[closing[c].key].status \in Closed

\* What a checkout has read is still there when it commits.
CommitCovered ==
  \A b \in Buyers : placing[b] # None /\ placing[b].pc = "commit" => Covered(placing[b].lines)

CarefulInv ==
  /\ StockInv
  /\ ClosingOnce
  /\ ClosingClosed
  /\ CommitCovered
  /\ \A p \in Products : Exact(p)
  /\ NoOversell

LEMMA CarefulMeansNext == [CarefulNext]_vars => [Next]_vars
  BY DEF CarefulNext, Next, CloseStep

LEMMA CarefulHistory ==
  ASSUME [CarefulNext]_vars
  PROVE  \/ \E b \in Buyers : Reserves(b)
         \/ \E c \in Closers : ReleaseStock(c)
         \/ \E c \in Closers, k \in Keys, status \in Requested : SetStatus(c, k, status) /\ Careful
         \/ \E k \in Keys : (PaymentSucceeded(k) \/ PaymentFailed(k)) /\ Careful
         \/ UNCHANGED <<stock, orders, closing>>
<1>1. CASE PlaceStep
  <2>1. ASSUME NEW b \in Buyers, CommitOrder(b)
        PROVE  Reserves(b) \/ UNCHANGED <<stock, orders, closing>>
    BY <2>1 DEF CommitOrder, Reserves
  <2>2. QED
    BY <1>1, <2>1 DEF PlaceStep, BeginPlace, FindCart, ReadItems, StoreNotification, PublishEvent,
                      ClearOrderedCart, DropPlacing, stockVars
<1>2. CASE CartStep /\ UNCHANGED <<stockVars, orderVars>>
  BY <1>2 DEF stockVars, orderVars
<1>3. CASE UNCHANGED vars
  BY <1>3 DEF vars, stockVars, orderVars
<1>4. QED
  BY <1>1, <1>2, <1>3 DEF CarefulNext, PaymentStep

\* Which orders are due does not change when an open order is closed by a
\* request that will release its stock, nor by any other change of status.
LEMMA StatusKeepsDue ==
  ASSUME CarefulInv, NEW c \in Closers, NEW k \in Keys, NEW status \in Requested,
         SetStatus(c, k, status), Careful
  PROVE  /\ \A j \in Keys : Due(j)' <=> Due(j)
         /\ ClosingOnce'
         /\ ClosingClosed'
         /\ UNCHANGED stock
<1> USE DEF CarefulInv, StockInv, Typed
<1>1. /\ orders[k] \in Order /\ closing[c] = None /\ orders[k] # None
      /\ orders' = [orders EXCEPT ![k].status = status]
      /\ closing' = IF status \in Closed
                      THEN [closing EXCEPT ![c] = [key |-> k, delivered |-> status = "delivered"]]
                      ELSE closing
      /\ UNCHANGED stock
  BY DEF SetStatus, OrdersTypeOK, stockVars
<1>2. orders'[k].status = status /\ \A j \in Keys : j # k => orders'[j] = orders[j]
  BY <1>1 DEF OrdersTypeOK, Order
<1>3. orders[k].status \notin Closed
  <2> SUFFICES ASSUME orders[k].status \in Closed PROVE FALSE
    OBVIOUS
  <2>1. status = orders[k].status
    BY <1>1, <1>2 DEF Careful, Placed
  <2>2. closing'[c] = [key |-> k, delivered |-> status = "delivered"]
    BY <1>1, <2>1 DEF OrdersTypeOK
  <2>3. closing'[c] # None /\ closing'[c].key = k
    <3>1. [key |-> k, delivered |-> status = "delivered"] \in Closing
      BY DEF Closing
    <3>2. QED
      BY <2>2, <3>1, OrderAssumption
  <2>4. QED
    BY <1>1, <2>3 DEF Careful
<1>4. \A d \in Closers : closing[d] # None => closing[d].key # k
  BY <1>3 DEF ClosingClosed
<1>5. orders'[k] # None /\ \A j \in Keys : orders'[j] = None <=> orders[j] = None
  <2>1. Rewritten
    BY SetStatusRewrites
  <2>2. QED
    BY <1>1, <2>1 DEF Rewritten
<1>6. CASE status \in Closed
  <2> DEFINE new == [key |-> k, delivered |-> status = "delivered"]
  <2>1. new # None /\ new.key = k
    <3>1. new \in Closing
      BY DEF Closing
    <3>2. QED
      BY <3>1, OrderAssumption
  <2>2. closing'[c] = new /\ \A d \in Closers \ {c} : closing'[d] = closing[d]
    BY <1>1, <1>6 DEF OrdersTypeOK
  <2> HIDE DEF new
  <2>3. ASSUME NEW j \in Keys PROVE Due(j)' <=> Due(j)
    <3>1. CASE j = k
      <4>1. Due(k)
        BY <1>1, <1>3 DEF Due
      <4>2. Due(k)'
        BY <1>5, <2>1, <2>2 DEF Due
      <4>3. QED
        BY <3>1, <4>1, <4>2
    <3>2. CASE j # k
      <4>1. orders'[j] = orders[j]
        BY <1>2, <3>2
      <4>2. (\E d \in Closers : closing'[d] # None /\ closing'[d].key = j)
              <=> (\E d \in Closers : closing[d] # None /\ closing[d].key = j)
        BY <1>1, <2>1, <2>2, <3>2
      <4>3. QED
        BY <4>1, <4>2 DEF Due
    <3>3. QED
      BY <3>1, <3>2
  <2>4. ClosingOnce'
    BY <1>4, <2>1, <2>2 DEF ClosingOnce
  <2>5. ClosingClosed'
    <3>1. ASSUME NEW d \in Closers, closing'[d] # None
          PROVE  orders'[closing'[d].key].status \in Closed
      <4>1. CASE d = c
        BY <1>2, <1>6, <2>1, <2>2, <4>1
      <4>2. CASE d # c
        <5>1. closing'[d] = closing[d] /\ closing[d].key \in Keys /\ closing[d].key # k
          BY <1>4, <2>2, <3>1, <4>2, ClosingShape
        <5>2. QED
          BY <1>2, <3>1, <5>1 DEF ClosingClosed
      <4>3. QED
        BY <4>1, <4>2
    <3>2. QED
      BY <3>1 DEF ClosingClosed
  <2>6. QED
    BY <1>1, <2>3, <2>4, <2>5
<1>7. CASE status \notin Closed
  <2>1. UNCHANGED closing
    BY <1>1, <1>7
  <2>2. ASSUME NEW j \in Keys PROVE Due(j)' <=> Due(j)
    <3>1. CASE j = k
      BY <1>1, <1>2, <1>3, <1>5, <1>7, <3>1 DEF Due
    <3>2. CASE j # k
      BY <1>2, <2>1, <3>2 DEF Due
    <3>3. QED
      BY <3>1, <3>2
  <2>3. ClosingOnce' /\ ClosingClosed'
    <3>1. \A d \in Closers : closing[d] # None => orders'[closing[d].key] = orders[closing[d].key]
      BY <1>2, <1>4, ClosingShape
    <3>2. QED
      BY <2>1, <3>1 DEF ClosingOnce, ClosingClosed
  <2>4. QED
    BY <1>1, <2>2, <2>3
<1>8. QED
  BY <1>6, <1>7

\* A payment of a closed order would reopen it; of an open one it changes
\* nothing that counts here.
LEMMA PaymentKeepsDue ==
  ASSUME CarefulInv, NEW k \in Keys, PaymentSucceeded(k) \/ PaymentFailed(k), Careful
  PROVE  /\ \A j \in Keys : Due(j)' <=> Due(j)
         /\ ClosingOnce'
         /\ ClosingClosed'
         /\ UNCHANGED stock
<1> USE DEF CarefulInv, StockInv, Typed
<1>1. UNCHANGED <<closing, stock>> /\ orders[k] # None /\ orders[k] \in Order
  BY DEF PaymentSucceeded, PaymentFailed, stockVars, OrdersTypeOK
<1>2. \A j \in Keys : orders'[j] = None <=> orders[j] = None
  BY PaymentRewrites DEF Rewritten
<1>3. \A j \in Keys : j # k => orders'[j] = orders[j]
  BY DEF PaymentSucceeded, PaymentFailed, OrdersTypeOK
<1>4. orders'[k].status \in Closed <=> orders[k].status \in Closed
  <2>1. CASE PaymentFailed(k)
    <3>1. orders'[k].status = orders[k].status
      BY <1>1, <2>1 DEF PaymentFailed, OrdersTypeOK, Order
    <3>2. QED
      BY <3>1
  <2>2. CASE PaymentSucceeded(k)
    <3>1. orders'[k].status = "confirmed"
      BY <1>1, <2>2 DEF PaymentSucceeded, OrdersTypeOK, Order
    <3>2. orders[k].status \in Closed => orders'[k].status = orders[k].status
      BY <1>1 DEF Careful, Placed
    <3>3. QED
      BY <3>1, <3>2 DEF Closed
  <2>3. QED
    BY <2>1, <2>2
<1>5. \A j \in Keys : orders[j] # None => (orders'[j].status \in Closed <=> orders[j].status \in Closed)
  BY <1>3, <1>4
<1>6. \A j \in Keys : Due(j)' <=> Due(j)
  BY <1>1, <1>2, <1>5 DEF Due
<1>7. ClosingOnce'
  BY <1>1 DEF ClosingOnce
<1>8. ClosingClosed'
  BY <1>1, <1>5, ClosingShape DEF ClosingClosed, ClosingPlaced
<1>9. QED
  BY <1>1, <1>6, <1>7, <1>8

\* A checkout reserves what its order will ask for, of stock that is free.
LEMMA ReservingExact ==
  ASSUME CarefulInv, Typed', NEW b \in Buyers, Reserves(b), NEW p \in Products
  PROVE  Exact(p)' /\ Free(stock'[p]) >= 0
<1> USE DEF CarefulInv, StockInv, Typed
<1> DEFINE n == placing[b].lines[p]
<1>1. /\ stock'[p].reserved = stock[p].reserved + n
      /\ stock'[p].available = stock[p].available
      /\ n \in Nat /\ stock[p].reserved \in Nat /\ stock[p].available \in Nat
  BY ReserveFacts DEF StockTypeOK, StockRow
<1>2. Covered(placing[b].lines) /\ Free(stock[p]) >= 0
  BY DEF Reserves, CommitCovered, NoOversell
<1>3. n > 0 => n <= Free(stock[p])
  BY <1>2 DEF Covered, Bought
<1>4. Exact(p)'
  BY ReservingBalances
<1> HIDE DEF n
<1>5. Free(stock'[p]) >= 0
  BY <1>1, <1>2, <1>3 DEF Free
<1>6. QED
  BY <1>4, <1>5

\* A status change is the only one for its order, so that the release ends it ...
LEMMA ReleaseEnds ==
  ASSUME CarefulInv, NEW c \in Closers, ReleaseStock(c), NEW key \in Keys, key = closing[c].key
  PROVE  ~Due(key)'
<1> USE DEF CarefulInv, StockInv, Typed
<1>1. /\ closing[c] # None
      /\ UNCHANGED orders
      /\ closing'[c] = None /\ \A d \in Closers \ {c} : closing'[d] = closing[d]
  BY DEF ReleaseStock, OrdersTypeOK
<1>2. orders'[key].status \in Closed
  BY <1>1 DEF ClosingClosed
<1>3. \A d \in Closers : closing'[d] # None => closing'[d].key # key
  BY <1>1 DEF ClosingOnce
<1>4. QED
  BY <1>2, <1>3 DEF Due

\* ... and does not fail: since nothing is oversold, no row would go below zero.
LEMMA ReleaseCovered ==
  ASSUME CarefulInv, NEW c \in Closers, ReleaseStock(c)
  PROVE  Releasable(c)
<1> USE DEF CarefulInv, StockInv, Typed
<1>1. PICK key \in Keys : key = closing[c].key
  BY ClosingShape DEF ReleaseStock
<1>2. closing[c] # None /\ orders[key] # None
  BY <1>1 DEF ReleaseStock, ClosingPlaced
<1>3. ASSUME NEW p \in Products PROVE orders[key].lines[p] <= stock[p].available
  <2> DEFINE q == orders[key].lines[p]
             f == Outstanding(p)
  <2>1. q \in Nat
    BY <1>2 DEF OrdersTypeOK, Order, Lines
  <2>2. f[key] = q
    BY <1>1, <1>2 DEF Outstanding, Due
  <2>3. f[key] <= Sum(f, Keys) /\ stock[p].reserved = Sum(f, Keys)
    BY OutstandingFacts DEF Exact
  <2>4. Free(stock[p]) >= 0 /\ stock[p].reserved \in Nat /\ stock[p].available \in Nat
    BY DEF NoOversell, StockTypeOK, StockRow
  <2> HIDE DEF q, f
  <2>5. q <= stock[p].available
    BY <2>1, <2>2, <2>3, <2>4 DEF Free
  <2>6. QED
    BY <2>5 DEF q
<1>4. QED
  BY <1>1, <1>3 DEF Releasable, ReleaseAllowed, Released, Bought

\* A closed order gives back what it asked for.
LEMMA ReleasingExact ==
  ASSUME CarefulInv, Typed', NEW c \in Closers, ReleaseStock(c)
  PROVE  /\ \A p \in Products : Exact(p)' /\ Free(stock'[p]) >= Free(stock[p])
         /\ ClosingOnce'
         /\ ClosingClosed'
<1> USE DEF CarefulInv, StockInv, Typed
<1>1. PICK key \in Keys : key = closing[c].key
  BY ClosingShape DEF ReleaseStock
<1>2. /\ orders[key] # None
      /\ UNCHANGED orders
      /\ closing'[c] = None /\ \A d \in Closers \ {c} : closing'[d] = closing[d]
  BY <1>1 DEF ReleaseStock, ClosingPlaced, OrdersTypeOK
<1>3. ~Due(key)' /\ Releasable(c)
  BY <1>1, ReleaseEnds, ReleaseCovered
<1>4. ASSUME NEW p \in Products
      PROVE  Exact(p)' /\ Free(stock'[p]) >= Free(stock[p])
  <2> DEFINE q == orders[key].lines[p]
  <2>1. /\ Exact(p)' /\ q \in Nat
        /\ stock'[p].reserved = stock[p].reserved - q
    BY <1>1, <1>3, ReleasingBalances
  <2>2. /\ stock'[p].available = IF closing[c].delivered THEN stock[p].available - q
                                                         ELSE stock[p].available
        /\ stock[p].reserved \in Nat /\ stock[p].available \in Nat
    BY <1>1, <1>2, <1>3, ReleaseFacts DEF StockTypeOK, StockRow
  <2> HIDE DEF q, CarefulInv, StockInv, Typed
  <2>3. Free(stock'[p]) >= Free(stock[p])
    BY <2>1, <2>2 DEF Free
  <2>4. QED
    BY <2>1, <2>3
<1>5. ClosingOnce' /\ ClosingClosed'
  BY <1>2 DEF ClosingOnce, ClosingClosed
<1>6. QED
  BY <1>4, <1>5

\* How a checkout gets to its commit.
LEMMA CommitHistory ==
  ASSUME Typed, [Next]_vars, NEW b \in Buyers, placing'[b] # None, placing'[b].pc = "commit"
  PROVE  \/ placing'[b] = placing[b]
         \/ Covered(placing'[b].lines) /\ UNCHANGED stock
<1> USE DEF Typed
<1>1. ASSUME NEW d \in Buyers, NEW r, r = None \/ r.pc # "commit",
             placing' = [placing EXCEPT ![d] = r]
      PROVE  placing'[b] = placing[b]
  BY <1>1 DEF OrdersTypeOK
<1>2. ASSUME NEW d \in Buyers, Return(d) PROVE placing'[b] = placing[b]
  BY <1>1, <1>2 DEF Return
<1>3. ASSUME NEW d \in Buyers, NEW pc \in {"notify", "publish", "clear"},
             placing[d] # None, placing[d].pc \in {"commit", "notify", "publish"},
             placing' = [placing EXCEPT ![d].pc = pc]
      PROVE  placing'[b] = placing[b]
  <2>1. placing'[d].pc = pc
    <3>1. placing'[d] = [pc |-> pc, key |-> placing[d].key, cart |-> placing[d].cart,
                         lines |-> placing[d].lines, first |-> placing[d].first]
      BY <1>3, PlacingAdvances
    <3>2. QED
      BY <3>1
  <2>2. b # d
    BY <1>3, <2>1
  <2>3. QED
    BY <1>3, <2>2, PlacingAdvances
<1>4. ASSUME NEW d \in Buyers, ReadItems(d)
      PROVE  placing'[b] = placing[b] \/ (Covered(placing'[b].lines) /\ UNCHANGED stock)
  <2> DEFINE items == lines[placing[d].cart]
  <2>1. CASE Return(d)
    BY <1>2, <2>1
  <2>2. ASSUME NEW first \in Bought(items), Covered(items),
               placing' = [placing EXCEPT ![d] =
                 [pc |-> "commit", key |-> placing[d].key, cart |-> placing[d].cart,
                  lines |-> items, first |-> first]]
        PROVE  placing'[b] = placing[b] \/ Covered(placing'[b].lines)
    <3>1. CASE b = d
      <4>1. placing'[b] = [pc |-> "commit", key |-> placing[d].key, cart |-> placing[d].cart,
                           lines |-> items, first |-> first]
        BY <2>2, <3>1 DEF OrdersTypeOK
      <4>2. placing'[b].lines = items
        BY <4>1
      <4>3. QED
        BY <2>2, <4>2
    <3>2. CASE b # d
      BY <2>2, <3>2 DEF OrdersTypeOK
    <3>3. QED
      BY <3>1, <3>2
  <2>3. QED
    BY <1>4, <2>1, <2>2 DEF ReadItems, stockVars
<1>5. CASE PlaceStep
  <2>1. ASSUME NEW d \in Buyers, NEW k \in Keys, NEW s \in Sessions, BeginPlace(d, k, s)
        PROVE  placing'[b] = placing[b]
    BY <1>1, <2>1 DEF BeginPlace
  <2>2. ASSUME NEW d \in Buyers, FindCart(d) PROVE placing'[b] = placing[b]
    BY <1>1, <1>2, <2>2 DEF FindCart
  <2>3. ASSUME NEW d \in Buyers, CommitOrder(d) PROVE placing'[b] = placing[b]
    BY <1>2, <1>3, <2>3 DEF CommitOrder, StoreOrder
  <2>4. ASSUME NEW d \in Buyers, StoreNotification(d) \/ PublishEvent(d)
        PROVE  placing'[b] = placing[b]
    BY <1>3, <2>4 DEF StoreNotification, PublishEvent
  <2>5. ASSUME NEW d \in Buyers, ClearOrderedCart(d) \/ DropPlacing(d)
        PROVE  placing'[b] = placing[b]
    BY <1>2, <2>5 DEF ClearOrderedCart, DropPlacing
  <2>6. QED
    BY <1>4, <1>5, <2>1, <2>2, <2>3, <2>4, <2>5 DEF PlaceStep
<1>6. CASE ~PlaceStep
  <2>1. UNCHANGED placing
    BY <1>6
       DEF Next, CloseStep, SetStatus, ReleaseStock, DropClosing, PaymentStep, PaymentSucceeded,
           PaymentFailed, Age, ReapStep, ReapBatch, orderVars, vars
  <2>2. QED
    BY <2>1
<1>7. QED
  BY <1>5, <1>6

\* What was free stays free, unless the one checkout takes it.
LEMMA CommitStaysCovered ==
  ASSUME CarefulInv, [Next]_vars,
         \A p \in Products : Free(stock'[p]) >= Free(stock[p]),
         \A p \in Products : stock'[p] \in StockRow
  PROVE  CommitCovered'
<1> SUFFICES ASSUME NEW b \in Buyers, placing'[b] # None, placing'[b].pc = "commit",
                    NEW p \in Bought(placing'[b].lines)
             PROVE  placing'[b].lines[p] <= Free(stock'[p])
  BY DEF CommitCovered, Covered
<1> USE DEF CarefulInv, StockInv
<1>1. CASE placing'[b] = placing[b]
  <2>1. placing[b].lines \in Lines
    BY <1>1, PlacingShape DEF Typed
  <2>2. p \in Products /\ placing[b].lines[p] \in Nat
    BY <1>1, <2>1 DEF Bought, Lines
  <2>3. placing[b].lines[p] <= Free(stock[p])
    BY <1>1 DEF CommitCovered, Covered
  <2>4. Free(stock[p]) \in Int /\ Free(stock'[p]) \in Int
    BY <2>2 DEF StockTypeOK, StockRow, Free
  <2>5. QED
    BY <1>1, <2>2, <2>3, <2>4
<1>2. CASE Covered(placing'[b].lines) /\ UNCHANGED stock
  BY <1>2 DEF Covered
<1>3. QED
  BY <1>1, <1>2, CommitHistory

LEMMA CarefulStays ==
  ASSUME \A b, d \in Buyers : b = d, CarefulInv, [CarefulNext]_vars
  PROVE  CarefulInv'
<1>1. [Next]_vars
  BY CarefulMeansNext
<1>2. StockInv'
  BY <1>1, StockStays DEF CarefulInv
<1>3. \A p \in Products : stock[p] \in StockRow /\ stock'[p] \in StockRow
  BY <1>2 DEF CarefulInv, StockInv, StockTypeOK
<1>4. \A p \in Products : Free(stock[p]) \in Int
  BY <1>3 DEF StockRow, Free
<1>5. ASSUME NEW b \in Buyers, Reserves(b) PROVE CarefulInv'
  <2>1. \A p \in Products : Exact(p)' /\ Free(stock'[p]) >= 0
    BY <1>2, <1>5, ReservingExact DEF StockInv
  <2>2. CommitCovered'
    <3>1. placing'[b].pc = "notify"
      <4>1. placing'[b] = [pc |-> "notify", key |-> placing[b].key, cart |-> placing[b].cart,
                           lines |-> placing[b].lines, first |-> placing[b].first]
        BY <1>5, StoreOrderFacts DEF Reserves, CarefulInv, StockInv, Typed
      <4>2. QED
        BY <4>1
    <3>2. QED
      BY <3>1 DEF CommitCovered
  <2>3. ClosingOnce' /\ ClosingClosed'
    <3>1. ASSUME NEW c \in Closers, closing[c] # None
          PROVE  orders'[closing[c].key] = orders[closing[c].key]
      <4>1. closing[c].key \in Keys /\ orders[closing[c].key] # None
        BY <3>1, ClosingShape DEF CarefulInv, StockInv, Typed, ClosingPlaced
      <4>2. closing[c].key # placing[b].key
        BY <1>5, <4>1 DEF Reserves
      <4>3. QED
        BY <1>5, <4>1, <4>2, StoreOrderFacts DEF Reserves, CarefulInv, StockInv, Typed
    <3>2. QED
      BY <1>5, <3>1 DEF Reserves, CarefulInv, ClosingOnce, ClosingClosed
  <2>4. QED
    BY <1>2, <2>1, <2>2, <2>3 DEF CarefulInv, NoOversell
<1>6. ASSUME NEW c \in Closers, ReleaseStock(c) PROVE CarefulInv'
  <2>1. /\ \A p \in Products : Exact(p)' /\ Free(stock'[p]) >= Free(stock[p])
        /\ ClosingOnce' /\ ClosingClosed'
    BY <1>2, <1>6, ReleasingExact DEF StockInv
  <2>2. CommitCovered'
    BY <1>1, <1>3, <2>1, CommitStaysCovered
  <2>3. \A p \in Products : Free(stock'[p]) >= 0
    <3>1. \A p \in Products : Free(stock'[p]) \in Int
      BY <1>3 DEF StockRow, Free
    <3>2. QED
      BY <1>4, <2>1, <3>1 DEF CarefulInv, NoOversell
  <2>4. QED
    BY <1>2, <2>1, <2>2, <2>3 DEF CarefulInv, NoOversell
<1>7. ASSUME UNCHANGED stock, \A j \in Keys : Due(j)' <=> Due(j), ClosingOnce', ClosingClosed'
      PROVE  CarefulInv'
  <2>1. \A p \in Products : Exact(p)'
    BY <1>1, <1>7, QuietBalances DEF CarefulInv
  <2>2. CommitCovered'
    BY <1>1, <1>3, <1>4, <1>7, CommitStaysCovered
  <2>3. NoOversell'
    BY <1>7 DEF CarefulInv, NoOversell
  <2>4. QED
    BY <1>2, <1>7, <2>1, <2>2, <2>3 DEF CarefulInv
<1>8. CASE UNCHANGED <<stock, orders, closing>>
  <2>1. (\A j \in Keys : Due(j)' <=> Due(j)) /\ ClosingOnce' /\ ClosingClosed'
    BY <1>8 DEF Due, ClosingOnce, ClosingClosed, CarefulInv
  <2>2. QED
    BY <1>7, <1>8, <2>1
<1>9. QED
  BY <1>5, <1>6, <1>7, <1>8, CarefulHistory, StatusKeepsDue, PaymentKeepsDue

LEMMA CarefulStarts == FilledInit => CarefulInv
<1> SUFFICES ASSUME FilledInit PROVE CarefulInv
  OBVIOUS
<1> USE DEF FilledInit
<1>1. StockTypeOK /\ \A p \in Products : stock[p].available \in Nat /\ stock[p].reserved = 0
  BY InitRows
<1>2. Typed
  <2>1. lines \in [CartIds -> Lines]
    <3>1. 0..Baskets \subseteq Nat
      BY BasketsAssumption
    <3>2. [Products -> 0..Baskets] \subseteq Lines
      BY <3>1 DEF Lines
    <3>3. QED
      BY <3>2 DEF FilledCarts
  <2>2. CartTypeOK
    BY <2>1 DEF FilledCarts, CartTypeOK
  <2>3. Live = used
    BY CartIdsAssumption DEF FilledCarts, Live
  <2>4. CartsSeparate
    BY <2>3 DEF FilledCarts, CartsSeparate
  <2>5. OrdersTypeOK
    BY DEF InitOrders, OrdersTypeOK
  <2>6. QED
    BY <2>2, <2>4, <2>5 DEF Typed, CartInv
<1>3. ClosingPlaced /\ ClosingOnce /\ ClosingClosed /\ CommitCovered
  BY DEF InitOrders, ClosingPlaced, ClosingOnce, ClosingClosed, CommitCovered
<1>4. ASSUME NEW p \in Products PROVE Exact(p)
  <2>1. \A k \in Keys : Outstanding(p)[k] = 0
    BY DEF Outstanding, Due, InitOrders
  <2>2. Sum(Outstanding(p), Keys) = 0
    BY <2>1, FiniteAssumption, SumZero
  <2>3. QED
    BY <1>1, <2>2 DEF Exact
<1>5. NoOversell
  <2> HIDE DEF FilledInit
  <2> SUFFICES ASSUME NEW p \in Products PROVE Free(stock[p]) >= 0
    BY DEF NoOversell
  <2>1. stock[p].available \in Nat /\ stock[p].reserved = 0
    BY <1>1
  <2>2. QED
    BY <2>1 DEF Free
<1>6. QED
  BY <1>1, <1>2, <1>3, <1>4, <1>5 DEF CarefulInv, StockInv

\* In the disciplined shop with one checkout at a time the invariants that need
\* each other hold together: the ledger is exact because no release fails, none
\* fails because nothing is oversold, and nothing is oversold because the
\* ledger is exact and what a checkout has read stays free until it commits.
LEMMA CarefulAlways == ASSUME \A b, d \in Buyers : b = d PROVE CarefulSpec => []CarefulInv
<1>1. CarefulInv /\ [CarefulNext]_vars => CarefulInv'
  BY CarefulStays
<1>2. QED
  BY <1>1, CarefulStarts, PTL DEF CarefulSpec

\* The reserved quantity of a product is what the orders that are due ask for,
\* whatever is placed, dropped, paid and closed by however many farmers.
THEOREM LedgerStaysExact ==
  ASSUME \A b, d \in Buyers : b = d
  PROVE  CarefulSpec => []LedgerExact
<1>1. CarefulInv => LedgerExact
  BY ExactMeans DEF CarefulInv
<1>2. QED
  BY <1>1, CarefulAlways, PTL

\* What is sold there can be delivered.
THEOREM NeverOversold ==
  ASSUME \A b, d \in Buyers : b = d
  PROVE  CarefulSpec => []NoOversell
<1>1. CarefulInv => NoOversell
  BY DEF CarefulInv
<1>2. QED
  BY <1>1, CarefulAlways, PTL

-----------------------------------------------------------------------------
(***************************************************************************)
(* That shop implements StockBook.                                         *)
(***************************************************************************)

LEMMA ClaimFacts ==
  ASSUME OrdersTypeOK, NEW k \in Keys, orders[k] # None
  PROVE  /\ Claims[k] # None
         /\ Claims[k].items = orders[k].lines
         /\ Claims[k].open = Due(k)
<1>1. Claims[k] = [items |-> orders[k].lines, open |-> Due(k)]
  BY DEF Claims, ClaimOf
<1>2. orders[k].lines \in Lines /\ Due(k) \in BOOLEAN
  BY DEF OrdersTypeOK, Order, Due
<1>3. Claims[k] \in [items : Lines, open : BOOLEAN]
  BY <1>1, <1>2
<1>4. QED
  BY <1>1, <1>3, ClaimAssumption

LEMMA ClaimUnchanged ==
  ASSUME NEW k \in Keys, Due(k)' <=> Due(k), orders'[k] = None <=> orders[k] = None,
         orders[k] # None => orders'[k].lines = orders[k].lines
  PROVE  Claims'[k] = Claims[k]
<1>1. CASE orders[k] = None
  BY <1>1 DEF Claims, ClaimOf
<1>2. CASE orders[k] # None
  <2>1. Due(k)' = Due(k)
    BY DEF Due
  <2>2. Claims'[k] = [items |-> orders'[k].lines, open |-> Due(k)']
    BY <1>2 DEF Claims, ClaimOf
  <2>3. Claims[k] = [items |-> orders[k].lines, open |-> Due(k)]
    BY <1>2 DEF Claims, ClaimOf
  <2>4. QED
    BY <1>2, <2>1, <2>2, <2>3
<1>3. QED
  BY <1>1, <1>2

\* A checkout takes what is free, and only if its key is.
LEMMA ReservingTakes ==
  ASSUME CarefulInv, CarefulInv', NEW b \in Buyers, Reserves(b)
  PROVE  \E k \in Keys : StockLedger!Take(k)
<1> USE DEF CarefulInv, StockInv, Typed
<1>1. PICK k \in Keys : k = placing[b].key
  BY PlacingShape DEF Reserves
<1> DEFINE items == placing[b].lines
<1>2. items \in Lines
  BY PlacingShape DEF Reserves
<1>3. /\ orders[k] = None
      /\ orders'[k] = [status |-> "pending", payment |-> "pending",
             lines |-> items, first |-> placing[b].first, stale |-> FALSE]
      /\ orders'[k] # None
      /\ \A j \in Keys \ {k} : orders'[j] = orders[j]
      /\ UNCHANGED closing
  BY <1>1, StoreOrderFacts DEF Reserves
<1>4. Claims[k] = None
  BY <1>3 DEF Claims, ClaimOf
<1>5. Claims'[k] = [items |-> items, open |-> TRUE]
  <2>1. orders'[k].status = "pending" /\ orders'[k].lines = items
    BY <1>3
  <2>2. Due(k)'
    BY <1>3, <2>1 DEF Due, Closed
  <2>3. QED
    BY <1>3, <2>1, <2>2 DEF Claims, ClaimOf
<1>6. ASSUME NEW j \in Keys \ {k} PROVE Claims'[j] = Claims[j]
  <2>1. orders'[j] = orders[j] /\ (Due(j)' <=> Due(j))
    BY <1>3 DEF Due
  <2>2. QED
    BY <2>1, ClaimUnchanged
<1>7. Claims' = [Claims EXCEPT ![k] = Claims'[k]]
  BY <1>6 DEF Claims
<1>8. ASSUME NEW p \in Products
      PROVE  /\ items[p] <= Free(stock[p])
             /\ Free(stock'[p]) = Free(stock[p]) - items[p]
             /\ stock'[p].available = stock[p].available
  <2>1. /\ stock'[p].reserved = stock[p].reserved + items[p]
        /\ stock'[p].available = stock[p].available
        /\ items[p] \in Nat /\ stock[p].reserved \in Nat /\ stock[p].available \in Nat
    BY ReserveFacts DEF StockTypeOK, StockRow
  <2>2. Covered(items) /\ Free(stock[p]) >= 0
    BY DEF Reserves, CommitCovered, NoOversell
  <2>3. items[p] > 0 => items[p] <= Free(stock[p])
    BY <2>2 DEF Covered, Bought
  <2> HIDE DEF items
  <2>4. items[p] <= Free(stock[p])
    BY <2>1, <2>2, <2>3 DEF Free
  <2>5. Free(stock'[p]) = Free(stock[p]) - items[p]
    BY <2>1 DEF Free
  <2>6. QED
    BY <2>1, <2>4, <2>5
<1> HIDE DEF items
<1>9. Claims'[k] \in [items : Lines, open : {TRUE}] /\ Claims'[k].items = items
  BY <1>2, <1>5
<1>10. \A p \in Products : Claims'[k].items[p] <= Unreserved[p]
  BY <1>8, <1>9 DEF Unreserved
<1>11. Unreserved' = [p \in Products |-> Unreserved[p] - Claims'[k].items[p]]
  BY <1>8, <1>9 DEF Unreserved
<1>12. UNCHANGED OnHand
  BY <1>8 DEF OnHand
<1>13. StockLedger!Take(k)
  BY <1>4, <1>7, <1>9, <1>10, <1>11, <1>12 DEF StockLedger!Take
<1>14. QED
  BY <1>13

\* A status change that releases ends an order's claim: delivered, its items are
\* handed over; cancelled, they are put back.
LEMMA ReleasingFinishes ==
  ASSUME CarefulInv, CarefulInv', NEW c \in Closers, ReleaseStock(c)
  PROVE  \E k \in Keys : StockLedger!PutBack(k) \/ StockLedger!HandOver(k)
<1> USE DEF CarefulInv, StockInv, Typed
<1>1. PICK k \in Keys : k = closing[c].key
  BY ClosingShape DEF ReleaseStock
<1>2. /\ closing[c] # None /\ orders[k] # None
      /\ UNCHANGED orders
      /\ closing'[c] = None /\ \A d \in Closers \ {c} : closing'[d] = closing[d]
      /\ closing[c].delivered \in BOOLEAN
  BY <1>1, ClosingShape DEF ReleaseStock, ClosingPlaced, OrdersTypeOK
<1>3. Due(k)
  BY <1>1, <1>2 DEF Due
<1>4. ~Due(k)'
  BY <1>1, <1>2, ReleaseEnds
<1>5. Claims[k] # None /\ Claims[k].open /\ Claims[k].items = orders[k].lines
  BY <1>2, <1>3, ClaimFacts
<1>6. Claims' = [Claims EXCEPT ![k] = [items |-> Claims[k].items, open |-> FALSE]]
  <2>1. ASSUME NEW j \in Keys \ {k} PROVE Claims'[j] = Claims[j]
    <3>1. (\E d \in Closers : closing'[d] # None /\ closing'[d].key = j)
            <=> (\E d \in Closers : closing[d] # None /\ closing[d].key = j)
      BY <1>1, <1>2, <2>1
    <3>2. orders'[j] = orders[j] /\ (Due(j)' <=> Due(j))
      BY <1>2, <3>1 DEF Due
    <3>3. QED
      BY <3>2, ClaimUnchanged
  <2>2. Claims'[k] = [items |-> Claims[k].items, open |-> FALSE]
    <3>1. Due(k)' = FALSE
      BY <1>4 DEF Due
    <3>2. Claims'[k] = [items |-> orders'[k].lines, open |-> Due(k)']
      BY <1>2 DEF Claims, ClaimOf
    <3>3. QED
      BY <1>2, <1>5, <3>1, <3>2
  <2>3. QED
    BY <2>1, <2>2 DEF Claims
<1>7. Releasable(c)
  BY ReleaseCovered
<1>8. ASSUME NEW p \in Products
      PROVE  /\ stock'[p].available = IF closing[c].delivered
                                        THEN stock[p].available - Claims[k].items[p]
                                        ELSE stock[p].available
             /\ Free(stock'[p]) = IF closing[c].delivered
                                    THEN Free(stock[p])
                                    ELSE Free(stock[p]) + Claims[k].items[p]
  <2> DEFINE q == orders[k].lines[p]
  <2>1. q \in Nat /\ stock'[p].reserved = stock[p].reserved - q
    BY <1>1, <1>4, <1>7, ReleasingBalances
  <2>2. /\ stock'[p].available = IF closing[c].delivered THEN stock[p].available - q
                                                         ELSE stock[p].available
        /\ stock[p].reserved \in Nat /\ stock[p].available \in Nat
    BY <1>1, <1>2, <1>7, ReleaseFacts DEF StockTypeOK, StockRow
  <2>3. Claims[k].items[p] = q
    BY <1>5
  <2> HIDE DEF q, CarefulInv, StockInv, Typed
  <2>4. Free(stock'[p]) = IF closing[c].delivered THEN Free(stock[p]) ELSE Free(stock[p]) + q
    BY <1>2, <2>1, <2>2 DEF Free
  <2>5. QED
    BY <2>2, <2>3, <2>4
<1>9. CASE closing[c].delivered
  <2>1. OnHand' = [p \in Products |-> OnHand[p] - Claims[k].items[p]]
    BY <1>8, <1>9 DEF OnHand
  <2>2. UNCHANGED Unreserved
    BY <1>8, <1>9 DEF Unreserved
  <2>3. StockLedger!HandOver(k)
    BY <1>5, <1>6, <2>1, <2>2 DEF StockLedger!HandOver, StockLedger!Open, StockLedger!Finish
  <2>4. QED
    BY <2>3
<1>10. CASE ~closing[c].delivered
  <2>1. Unreserved' = [p \in Products |-> Unreserved[p] + Claims[k].items[p]]
    BY <1>8, <1>10 DEF Unreserved
  <2>2. UNCHANGED OnHand
    BY <1>8, <1>10 DEF OnHand
  <2>3. StockLedger!PutBack(k)
    BY <1>5, <1>6, <2>1, <2>2 DEF StockLedger!PutBack, StockLedger!Open, StockLedger!Finish
  <2>4. QED
    BY <2>3
<1>11. QED
  BY <1>9, <1>10

\* What leaves the rows and the orders that are due alone is not in the book.
LEMMA QuietInBook ==
  ASSUME Typed, [Next]_vars, UNCHANGED stock, \A j \in Keys : Due(j)' <=> Due(j),
         \A j \in Keys : orders'[j] # None => orders[j] # None
  PROVE  UNCHANGED <<OnHand, Unreserved, Claims>>
<1>1. UNCHANGED OnHand /\ UNCHANGED Unreserved
  BY DEF OnHand, Unreserved
<1>2. ASSUME NEW j \in Keys PROVE Claims'[j] = Claims[j]
  <2>1. orders[j] # None => orders'[j] # None /\ orders'[j].lines = orders[j].lines
    BY ItemsKept
  <2>2. QED
    BY <2>1, ClaimUnchanged
<1>3. UNCHANGED Claims
  BY <1>2 DEF Claims
<1>4. QED
  BY <1>1, <1>3

\* A shop run with care and one checkout at a time keeps the promise of its
\* stock: no order takes what is not free, or the same key twice, and what it
\* took is handed over or put back, all of it, once.
THEOREM CarefulImplementsBook ==
  ASSUME \A b, d \in Buyers : b = d
  PROVE  CarefulSpec => ImplementsStockBook
<1>1. FilledInit => StockLedger!Init
  <2> SUFFICES ASSUME FilledInit PROVE StockLedger!Init
    OBVIOUS
  <2>1. \A p \in Products : stock[p].available \in Nat /\ stock[p].reserved = 0
    BY InitRows DEF FilledInit
  <2>2. OnHand \in [Products -> Nat]
    BY <2>1 DEF OnHand
  <2>3. ASSUME NEW p \in Products PROVE Free(stock[p]) = stock[p].available
    BY <2>1 DEF Free
  <2>4. Unreserved = OnHand
    BY <2>3 DEF Unreserved, OnHand
  <2>5. Claims = [k \in Keys |-> None]
    BY DEF FilledInit, InitOrders, Claims, ClaimOf
  <2>6. QED
    BY <2>2, <2>4, <2>5 DEF StockLedger!Init
<1>2. CarefulInv /\ CarefulInv' /\ [CarefulNext]_vars
        => [StockLedger!Next]_<<OnHand, Unreserved, Claims>>
  <2> SUFFICES ASSUME CarefulInv, CarefulInv', [CarefulNext]_vars
               PROVE  StockLedger!Next \/ UNCHANGED <<OnHand, Unreserved, Claims>>
    OBVIOUS
  <2>1. [Next]_vars /\ Typed
    BY CarefulMeansNext DEF CarefulInv, StockInv
  <2>2. ASSUME NEW b \in Buyers, Reserves(b) PROVE StockLedger!Next
    BY <2>2, ReservingTakes DEF StockLedger!Next
  <2>3. ASSUME NEW c \in Closers, ReleaseStock(c) PROVE StockLedger!Next
    BY <2>3, ReleasingFinishes DEF StockLedger!Next
  <2>4. ASSUME NEW c \in Closers, NEW k \in Keys, NEW status \in Requested,
               SetStatus(c, k, status), Careful
        PROVE  UNCHANGED <<OnHand, Unreserved, Claims>>
    <3>1. UNCHANGED stock /\ \A j \in Keys : Due(j)' <=> Due(j)
      BY <2>4, StatusKeepsDue
    <3>2. \A j \in Keys : orders'[j] # None => orders[j] # None
      BY <2>1, <2>4, SetStatusFacts
    <3>3. QED
      BY <2>1, <3>1, <3>2, QuietInBook
  <2>5. ASSUME NEW k \in Keys, PaymentSucceeded(k) \/ PaymentFailed(k), Careful
        PROVE  UNCHANGED <<OnHand, Unreserved, Claims>>
    <3>1. UNCHANGED stock /\ \A j \in Keys : Due(j)' <=> Due(j)
      BY <2>5, PaymentKeepsDue
    <3>2. \A j \in Keys : orders'[j] # None => orders[j] # None
      BY <2>1, <2>5, PaymentFacts
    <3>3. QED
      BY <2>1, <3>1, <3>2, QuietInBook
  <2>6. CASE UNCHANGED <<stock, orders, closing>>
    <3>1. \A j \in Keys : Due(j)' <=> Due(j)
      BY <2>6 DEF Due
    <3>2. QED
      BY <2>1, <2>6, <3>1, QuietInBook
  <2>7. QED
    BY <2>2, <2>3, <2>4, <2>5, <2>6, CarefulHistory
<1>3. QED
  BY <1>1, <1>2, CarefulAlways, PTL
     DEF CarefulSpec, ImplementsStockBook, StockLedger!Spec, StockLedger!bookVars

-----------------------------------------------------------------------------
(***************************************************************************)
(* Shoppers, stock edits and checkouts among them.                         *)
(***************************************************************************)

LEMMA ShoppingHistory ==
  ASSUME [ShoppingNext]_vars
  PROVE  \/ \E b \in Buyers : Reserves(b)
         \/ \E e \in Editors : Edits(e)
         \/ UNCHANGED <<stock, orders, closing>>
<1>1. CASE StockStep /\ UNCHANGED <<cartVars, orderVars>>
  BY <1>1 DEF StockStep, EditStep, BeginEdit, DropEdit, DeleteProduct, Edits, orderVars
<1>2. CASE CartStep /\ UNCHANGED <<stockVars, orderVars>>
  BY <1>2 DEF stockVars, orderVars
<1>3. CASE PlaceStep
  <2>1. ASSUME NEW b \in Buyers, CommitOrder(b)
        PROVE  Reserves(b) \/ UNCHANGED <<stock, orders, closing>>
    BY <2>1 DEF CommitOrder, Reserves
  <2>2. QED
    BY <1>3, <2>1 DEF PlaceStep, BeginPlace, FindCart, ReadItems, StoreNotification, PublishEvent,
                      ClearOrderedCart, DropPlacing, stockVars
<1>4. CASE UNCHANGED vars
  BY <1>4 DEF vars, stockVars, orderVars
<1>5. QED
  BY <1>1, <1>2, <1>3, <1>4 DEF ShoppingNext

\* No race between checkouts, stock edits and carts puts the ledger out: with
\* any number of each, what is reserved is what was ordered.
THEOREM ShoppingStaysExact == ShoppingSpec => []LedgerExact
<1> DEFINE I == StockInv /\ \A p \in Products : Exact(p)
<1>1. Init => I
  <2> SUFFICES ASSUME Init, NEW p \in Products PROVE Exact(p)
    BY StockStarts DEF Init, InitOrders, StockInv, ClosingPlaced
  <2>1. \A k \in Keys : Outstanding(p)[k] = 0
    BY DEF Init, InitOrders, Outstanding, Due
  <2>2. Sum(Outstanding(p), Keys) = 0
    BY <2>1, FiniteAssumption, SumZero
  <2>3. stock[p].reserved = 0
    BY InitRows DEF Init
  <2>4. QED
    BY <2>2, <2>3 DEF Exact
<1>2. I /\ [ShoppingNext]_vars => I'
  <2> SUFFICES ASSUME I, [ShoppingNext]_vars PROVE I'
    OBVIOUS
  <2>1. [Next]_vars
    BY DEF ShoppingNext, Next
  <2>2. StockInv'
    BY <2>1, StockStays
  <2>3. ASSUME NEW p \in Products PROVE Exact(p)'
    <3>1. ASSUME NEW b \in Buyers, Reserves(b) PROVE Exact(p)'
      BY <2>2, <3>1, ReservingBalances DEF StockInv
    <3>2. ASSUME NEW e \in Editors, Edits(e) PROVE Exact(p)'
      <4>1. \A j \in Keys : Due(j)' <=> Due(j)
        BY <3>2 DEF Edits, orderVars, Due
      <4>2. stock'[p].reserved = stock[p].reserved
        BY <3>2, EditFacts DEF StockInv
      <4>3. QED
        BY <2>1, <4>1, <4>2, QuietBalances
    <3>3. CASE UNCHANGED <<stock, orders, closing>>
      <4>1. \A j \in Keys : Due(j)' <=> Due(j)
        BY <3>3 DEF Due
      <4>2. QED
        BY <2>1, <3>3, <4>1, QuietBalances
    <3>4. QED
      BY <3>1, <3>2, <3>3, ShoppingHistory
  <2>4. QED
    BY <2>2, <2>3
<1>3. I => LedgerExact
  BY ExactMeans
<1> HIDE DEF I
<1>4. QED
  BY <1>1, <1>2, <1>3, PTL DEF ShoppingSpec
=============================================================================
