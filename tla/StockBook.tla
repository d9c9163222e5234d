------------------------------ MODULE StockBook ------------------------------
(***************************************************************************)
(* What the stock of a shop promises to its farmers and buyers: an order   *)
(* takes its items off the shelf once, and only items that are free; it    *)
(* stays as it was ordered; and it ends once, when its items are either    *)
(* handed over or put back, all of them.                                   *)
(***************************************************************************)
EXTENDS Integers

CONSTANTS
  Keys,       \* order keys
  Products,   \* what is sold
  Contents,   \* what can be ordered: product -> quantity
  None        \* no order with this key

VARIABLES
  onHand,   \* product -> the quantity that the farmer has
  free,     \* product -> the quantity that no open order has taken
  claims    \* order key -> what it took and whether it is open, or None

bookVars == <<onHand, free, claims>>

Init ==
  /\ onHand \in [Products -> Nat]
  /\ free = onHand
  /\ claims = [k \in Keys |-> None]

Take(k) ==
  /\ claims[k] = None
  /\ claims'[k] \in [items : Contents, open : {TRUE}]
  /\ \A p \in Products : claims'[k].items[p] <= free[p]
  /\ claims' = [claims EXCEPT ![k] = claims'[k]]
  /\ free' = [p \in Products |-> free[p] - claims'[k].items[p]]
  /\ UNCHANGED onHand

Open(k) == claims[k] # None /\ claims[k].open

Finish(k) == claims' = [claims EXCEPT ![k] = [items |-> claims[k].items, open |-> FALSE]]

PutBack(k) ==
  /\ Open(k)
  /\ Finish(k)
  /\ free' = [p \in Products |-> free[p] + claims[k].items[p]]
  /\ UNCHANGED onHand

HandOver(k) ==
  /\ Open(k)
  /\ Finish(k)
  /\ onHand' = [p \in Products |-> onHand[p] - claims[k].items[p]]
  /\ UNCHANGED free

Next == \E k \in Keys : Take(k) \/ PutBack(k) \/ HandOver(k)

Spec == Init /\ [][Next]_bookVars
=============================================================================
