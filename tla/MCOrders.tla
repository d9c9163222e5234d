------------------------------- MODULE MCOrders ------------------------------
(***************************************************************************)
(* Instances of Orders for TLC.                                            *)
(***************************************************************************)
EXTENDS Orders, TLC

CONSTANTS
  Baskets   \* bound: largest quantity of each line in a cart at the start

ASSUME BasketsAssumption == Baskets \in Nat

\* Every session comes with a cart that shoppers have filled in some way, so
\* that a run need not spend its states on filling it.
FilledCarts ==
  /\ cartOf \in [Sessions -> CartIds]
  /\ \A s, t \in Sessions : cartOf[s] = cartOf[t] => s = t
  /\ used = {cartOf[s] : s \in Sessions}
  /\ lines \in [CartIds -> [Products -> 0..Baskets]]
  /\ \A c \in CartIds \ used : lines[c] = NoLines
  /\ shopping = [h \in Shoppers |-> None]

FilledInit == InitStock /\ FilledCarts /\ InitOrders

FilledSpec == FilledInit /\ [][Next]_vars

-----------------------------------------------------------------------------
(***************************************************************************)
(* A disciplined shop, the environment in which the stock ledger is exact: *)
(* farmers leave closed orders alone and do not edit stock, a status       *)
(* change is not dropped half way, and no order gets old enough for the    *)
(* cron job or is paid after it was closed.                                *)
(***************************************************************************)

Careful ==
  /\ \A k \in Placed : orders[k].status \in Closed
                       => orders'[k].status = orders[k].status
  /\ \A c \in Closers : closing[c] = None /\ closing'[c] # None
                       => orders[closing'[c].key].status \notin Closed

CarefulNext ==
  \/ CartStep /\ UNCHANGED <<stockVars, orderVars>>
  \/ PlaceStep
  \/ \E c \in Closers, k \in Keys, status \in Requested : SetStatus(c, k, status) /\ Careful
  \/ \E c \in Closers : ReleaseStock(c)
  \/ PaymentStep /\ Careful

CarefulSpec == FilledInit /\ [][CarefulNext]_vars

\* The stock and the orders as the book of StockBook sees them.
OnHand == [p \in Products |-> stock[p].available]

Unreserved == [p \in Products |-> Free(stock[p])]

ClaimOf(k) ==
  IF orders[k] = None THEN None ELSE [items |-> orders[k].lines, open |-> Due(k)]

Claims == [k \in Keys |-> ClaimOf(k)]

\* A claim cannot be mistaken for none.
ASSUME ClaimAssumption == None \notin [items : Lines, open : BOOLEAN]

StockLedger == INSTANCE StockBook WITH
  Contents <- Lines, onHand <- OnHand, free <- Unreserved, claims <- Claims

\* A shop run that way, with one checkout at a time, keeps the promise of its
\* stock: an order takes only what is free, and is handed over or put back once.
ImplementsStockBook == StockLedger!Spec

-----------------------------------------------------------------------------
\* Shoppers, stock edits and checkouts among them: no order is closed, paid or
\* reaped, so that what is reserved is what was ordered.
ShoppingNext ==
  \/ StockStep /\ UNCHANGED <<cartVars, orderVars>>
  \/ CartStep /\ UNCHANGED <<stockVars, orderVars>>
  \/ PlaceStep

ShoppingSpec == Init /\ [][ShoppingNext]_vars

Symmetry == Permutations(Keys) \cup Permutations(Buyers) \cup Permutations(Closers)
=============================================================================
